---- MODULE Spec2Model ----
(***************************************************************************)
(* Verification model of containerized-strands-agents.                     *)
(*                                                                         *)
(* Three parts of the repository are modelled, each with its own           *)
(* specification over the shared variables:                                *)
(*   SpecQueue   the request queue of test_queue_unit.py                   *)
(*               (process_request_queue / handle_chat_request)             *)
(*   SpecWorker  the worker's HTTP handlers of docker/agent_runner.py      *)
(*               (chat / health / IdleShutdownTimer)                       *)
(*   Spec        the orchestrator of agent_manager.py                      *)
(*               (TaskTracker, AgentManager)                               *)
(* SpecLifecycle, SpecStartStop and SpecReaper run subsets of the          *)
(* orchestrator's operations.  SpecConfig and SpecPrompt add the system    *)
(* prompt arguments of send_message, SpecHistory adds the session messages *)
(* of the agents' data directories with get_messages and list_agents,      *)
(* SpecRegistry runs the public operations with the idle monitor, and      *)
(* SpecTracker runs TaskTracker alone.  SpecCancel adds the cancellation   *)
(* of the queue's processor, SpecTimer the worker's idle timer firing and  *)
(* GET /history, SpecListing list_agents against the live containers,      *)
(* SpecMonitor the idle monitor's loop, SpecReader the conversation read   *)
(* through GET /history and through get_messages, and SpecStorage the      *)
(* session files that get_messages reads for a stopped agent.              *)
(***************************************************************************)
EXTENDS Integers, Sequences, FiniteSets, TLC

(***************************************************************************)
(* Bounds of the model.                                                    *)
(***************************************************************************)
NumRequests == 3
NumMessages == 2

NumAgents == 2
MaxContainers == 2
MaxPorts == 2
MaxClock == 2
MaxSession == 2
MaxSweeps == 2
MaxTranscript == 3

Requests == 1..NumRequests
Messages == 1..NumMessages
AgentIds == 1..NumAgents
ContainerIds == 1..MaxContainers

\* Python's None, for a message, a request, a future and a response
NoMessage == 0
NoRequest == 0
NoFuture == [state |-> "absent"]
NoResponse == [state |-> "absent"]

VARIABLES
    \* ---- test_queue_unit.py -------------------------------------------
    request_queue,    \* _request_queue: asyncio.Queue of QueuedRequest
    is_processing,    \* _is_processing
    processed_order,  \* _processed_order
    messages,         \* the messages in the order they were put on the queue
    req_message,      \* QueuedRequest.message of each request
    response_future,  \* QueuedRequest.response_future of each request
    handler_pc,       \* where each handle_chat_request coroutine stands
    handler_result,   \* what each handle_chat_request returned
    processor_pc,     \* where the process_request_queue task stands
    queued_request,   \* the local queued_request of process_request_queue
    raised,           \* the requests whose turn raised an exception
    \* ---- docker/agent_runner.py ---------------------------------------
    chat_pc,          \* where each POST /chat handler stands
    chat_message,     \* request.message of each POST /chat
    chat_response,    \* the HTTP response of each POST /chat
    agent_inst,       \* _agent: None until get_agent() builds it
    health_response,  \* the body of the latest GET /health response
    timer_pending,    \* number of IdleShutdownTimer timers armed
    sigterm,          \* IdleShutdownTimer._shutdown has signalled the process
    \* ---- agent_manager.py ---------------------------------------------
    registry,         \* the tasks file: agent_id -> AgentInfo
    port_counter,     \* AgentManager._port_counter
    containers,       \* the containers the Docker daemon knows, by id
    next_container,   \* number of containers the daemon has created
    waiting,          \* the _start_container calls awaiting the health check
    now,              \* datetime.now(timezone.utc)
    op_result,        \* what the latest public operation returned
    in_flight,        \* the _dispatch_message tasks awaiting the worker's reply
    \* ---- the agents' data directories --------------------------------
    sessions,         \* session_{agent_id}/.../messages of each directory
    prompt_file,      \* system_prompt.txt of each directory
    history,          \* the messages the latest get_messages returned
    \* ---- the session history of one agent ----------------------------
    agent_messages,   \* agent.messages of the worker's agent
    message_files,    \* the message_*.json files of the session directory
    flat_file,        \* a session stored as one array of messages
    formatted,        \* the messages the latest GET /history returned
    \* ---- the idle monitor --------------------------------------------
    monitor_task      \* AgentManager._idle_monitor_task

queueVars == <<request_queue, is_processing, processed_order, messages,
               req_message, response_future, handler_pc, handler_result,
               processor_pc, queued_request, raised>>

workerVars == <<chat_pc, chat_message, chat_response, agent_inst,
                health_response, timer_pending, sigterm>>

managerVars == <<registry, port_counter, containers, next_container,
                 waiting, now, op_result, in_flight>>

storeVars == <<sessions, prompt_file, history>>

readerVars == <<agent_messages, message_files, flat_file, formatted>>

vars == <<queueVars, workerVars, managerVars, storeVars, readerVars,
          monitor_task>>

(***************************************************************************)
(* test_queue_unit.py: the queue-based request handling.                   *)
(***************************************************************************)

\* f"Processed: {message}"
Processed(message) == <<"Processed: ", message>>

\* str(e) of the exception a turn raised on this message
ErrorText(message) == <<"Exception: ", message>>

\* the dict a future is resolved with on success
SuccessResult(message) ==
    [status |-> "success", response |-> Processed(message)]

\* the dict a future is resolved with when the turn raised
ErrorResult(message) ==
    [status |-> "error", response |-> ErrorText(message)]

\* asyncio.Future(): created pending
NewFuture == [state |-> "pending"]

\* asyncio.Queue.put on an unbounded queue: append at the tail
QueuePut(q, r) == Append(q, r)

\* a queue that hands out its newest entry first
QueueGetNewest(q) ==
    [item |-> q[Len(q)], rest |-> SubSeq(q, 1, Len(q) - 1)]

\* asyncio.Queue.get: the entry at the head, and the queue without it
QueueGet(q) == [item |-> Head(q), rest |-> Tail(q)]

\* asyncio.Queue.qsize
QSize(q) == Len(q)

InitQueue ==
    /\ request_queue = <<>>
    /\ is_processing = FALSE
    /\ processed_order = <<>>
    /\ messages = <<>>
    /\ req_message = [r \in Requests |-> NoMessage]
    /\ response_future = [r \in Requests |-> NoFuture]
    /\ handler_pc = [r \in Requests |-> "idle"]
    /\ handler_result = [r \in Requests |-> NoResponse]
    /\ processor_pc = "get"
    /\ queued_request = NoRequest
    /\ raised = {}

\* handle_chat_request up to `await response_future`; the requests are
\* numbered in the order in which their handlers start
HandleChatRequest(r, m) ==
    /\ handler_pc[r] = "idle"
    /\ \A q \in Requests : q < r => handler_pc[q] # "idle"
    /\ req_message' = [req_message EXCEPT ![r] = m]
    /\ response_future' = [response_future EXCEPT ![r] = NewFuture]
    /\ request_queue' = QueuePut(request_queue, r)
    /\ messages' = Append(messages, m)
    /\ handler_pc' = [handler_pc EXCEPT ![r] = "awaiting"]
    /\ UNCHANGED <<is_processing, processed_order, handler_result,
                   processor_pc, queued_request, raised>>

\* asyncio.Future.done
FutureDone(f) == f \notin {NoFuture, NewFuture}

\* handle_chat_request resumes once its future is resolved and returns it
HandleChatReturn(r) ==
    /\ handler_pc[r] = "awaiting"
    /\ FutureDone(response_future[r])
    /\ handler_result' = [handler_result EXCEPT ![r] = response_future[r]]
    /\ handler_pc' = [handler_pc EXCEPT ![r] = "returned"]
    /\ UNCHANGED <<request_queue, is_processing, processed_order, messages,
                   req_message, response_future, processor_pc, queued_request,
                   raised>>

\* process_request_queue: `await _request_queue.get()` returns an entry and
\* the loop body runs up to the await of the agent work
ProcessorGet ==
    /\ processor_pc = "get"
    /\ QSize(request_queue) > 0
    /\ queued_request' = QueueGet(request_queue).item
    /\ request_queue' = QueueGet(request_queue).rest
    /\ is_processing' = TRUE
    /\ processed_order' =
           Append(processed_order, req_message[QueueGet(request_queue).item])
    /\ processor_pc' = "work"
    /\ UNCHANGED <<messages, req_message, response_future, handler_pc,
                   handler_result, raised>>

\* one future shared by all handlers: the newest entry's
SharedFuture(r) ==
    IF request_queue # <<>> THEN request_queue[Len(request_queue)] ELSE r

\* the future the success branch resolves: the dequeued entry's own
SuccessTarget(r) == r

\* the future the except branch resolves
ErrorTarget(r) == r

\* process_request_queue: the agent work returns, the result is set, and the
\* finally block runs; the loop is back at `await _request_queue.get()`
ProcessorSuccess ==
    /\ processor_pc = "work"
    /\ response_future' =
           [response_future EXCEPT ![SuccessTarget(queued_request)] =
                SuccessResult(req_message[queued_request])]
    /\ is_processing' = FALSE
    /\ processor_pc' = "get"
    /\ queued_request' = NoRequest
    /\ UNCHANGED <<request_queue, processed_order, messages, req_message,
                   handler_pc, handler_result, raised>>

\* an except branch that only logs
ExceptLogsOnly(r) == response_future

\* what the except branch does to the futures
ExceptBranch(r) ==
    [response_future EXCEPT ![ErrorTarget(r)] = ErrorResult(req_message[r])]

\* a loop that the exception leaves
LoopLeft == "stopped"

\* the state of the loop after the except and finally blocks
AfterExcept == "get"

\* process_request_queue: the agent work raises, the except branch sets an
\* error result, and the finally block runs
ProcessorError ==
    /\ processor_pc = "work"
    /\ response_future' = ExceptBranch(queued_request)
    /\ is_processing' = FALSE
    /\ processor_pc' = AfterExcept
    /\ queued_request' = NoRequest
    /\ raised' = raised \cup {queued_request}
    /\ UNCHANGED <<request_queue, processed_order, messages, req_message,
                   handler_pc, handler_result>>

\* asyncio.gather(*tasks) has returned: every handler has its result
GatherDone == \A r \in Requests : handler_pc[r] = "returned"

\* processor_task.cancel() after the gather: CancelledError at the get
ProcessorCancel ==
    /\ GatherDone
    /\ processor_pc = "get"
    /\ processor_pc' = "cancelled"
    /\ UNCHANGED <<request_queue, is_processing, processed_order, messages,
                   req_message, response_future, handler_pc, handler_result,
                   queued_request, raised>>

ProcessorStep == ProcessorGet \/ ProcessorSuccess \/ ProcessorError

NextQueue ==
    \/ \E r \in Requests, m \in Messages :
           HandleChatRequest(r, m) /\ UNCHANGED <<workerVars, managerVars, storeVars, readerVars, monitor_task>>
    \/ \E r \in Requests : HandleChatReturn(r) /\ UNCHANGED <<workerVars, managerVars, storeVars, readerVars, monitor_task>>
    \/ ProcessorGet /\ UNCHANGED <<workerVars, managerVars, storeVars, readerVars, monitor_task>>
    \/ ProcessorSuccess /\ UNCHANGED <<workerVars, managerVars, storeVars, readerVars, monitor_task>>
    \/ ProcessorError /\ UNCHANGED <<workerVars, managerVars, storeVars, readerVars, monitor_task>>
    \/ ProcessorCancel /\ UNCHANGED <<workerVars, managerVars, storeVars, readerVars, monitor_task>>

(***************************************************************************)
(* docker/agent_runner.py: the worker's HTTP handlers.                     *)
(***************************************************************************)

AGENT_ID == "default"

InitWorker ==
    /\ chat_pc = [r \in Requests |-> "idle"]
    /\ chat_message = [r \in Requests |-> NoMessage]
    /\ chat_response = [r \in Requests |-> NoResponse]
    /\ agent_inst = "None"
    /\ health_response = NoResponse
    /\ timer_pending = 0
    /\ sigterm = FALSE

\* IdleShutdownTimer.reset: cancel the pending timer, arm a new one
TimerReset(n) == 1

\* get_agent: build the agent on first use
GetAgent(a) == IF a = "None" THEN "Agent" ELSE a

\* ChatResponse(status="success", response=str(result), agent_id=AGENT_ID)
ChatSuccess(message) ==
    [code |-> 200, status |-> "success",
     response |-> <<"str: ", message>>, agent_id |-> AGENT_ID]

\* HTTPException(status_code=500, detail=str(e))
ChatFailure(message) ==
    [code |-> 500, detail |-> ErrorText(message)]

\* chat: from the request's arrival up to `await loop.run_in_executor(...)`;
\* the turn now runs on a thread of the default executor.  A process that
\* got SIGTERM takes no new request
ChatBegin(r, m) ==
    /\ chat_pc[r] = "idle"
    /\ ~sigterm
    /\ timer_pending' = TimerReset(timer_pending)
    /\ agent_inst' = GetAgent(agent_inst)
    /\ chat_message' = [chat_message EXCEPT ![r] = m]
    /\ chat_pc' = [chat_pc EXCEPT ![r] = "executing"]
    /\ UNCHANGED <<chat_response, health_response, sigterm>>

\* chat: the turn returned; the handler answers 200
ChatReturn(r) ==
    /\ chat_pc[r] = "executing"
    /\ chat_response' = [chat_response EXCEPT ![r] = ChatSuccess(chat_message[r])]
    /\ chat_pc' = [chat_pc EXCEPT ![r] = "responded"]
    /\ UNCHANGED <<chat_message, agent_inst, health_response, timer_pending,
                   sigterm>>

\* chat: the turn raised; the handler answers 500
ChatRaise(r) ==
    /\ chat_pc[r] = "executing"
    /\ chat_response' = [chat_response EXCEPT ![r] = ChatFailure(chat_message[r])]
    /\ chat_pc' = [chat_pc EXCEPT ![r] = "responded"]
    /\ UNCHANGED <<chat_message, agent_inst, health_response, timer_pending,
                   sigterm>>

\* the body health() returns
HealthBody == [status |-> "healthy", agent_id |-> AGENT_ID]

\* GET /health
Health ==
    /\ health_response' = HealthBody
    /\ UNCHANGED <<chat_pc, chat_message, chat_response, agent_inst,
                   timer_pending, sigterm>>

\* the turns in execution against the agent instance
TurnsExecuting == {r \in Requests : chat_pc[r] = "executing"}

NextWorker ==
    \/ \E r \in Requests, m \in Messages :
           ChatBegin(r, m) /\ UNCHANGED <<queueVars, managerVars, storeVars, readerVars, monitor_task>>
    \/ \E r \in Requests : ChatReturn(r) /\ UNCHANGED <<queueVars, managerVars, storeVars, readerVars, monitor_task>>
    \/ \E r \in Requests : ChatRaise(r) /\ UNCHANGED <<queueVars, managerVars, storeVars, readerVars, monitor_task>>
    \/ Health /\ UNCHANGED <<queueVars, managerVars, storeVars, readerVars, monitor_task>>

(***************************************************************************)
(* agent_manager.py: the registry, the port allocator and the lifecycle of *)
(* the agents' containers.                                                 *)
(***************************************************************************)

\* self._port_counter = 9000
PortBase == 9000

\* IDLE_TIMEOUT_MINUTES, in ticks of the model's clock
IdleTimeout == 1

\* data_dir: 0 is None, the others are custom directories
NoDir == 0
DataDirs == {NoDir, 1}

\* AgentInfo; container_id 0 is None
AgentInfo(cid, port, status, activity, dir) ==
    [container_id |-> cid, port |-> port, status |-> status,
     last_activity |-> activity, data_dir |-> dir]

\* an agent_id that is no key of the tasks file
NoAgent == AgentInfo(0, 0, "absent", 0, NoDir)

\* tracker.get_agent(agent_id) is not None
Exists(rec) == rec.status # "absent"

\* container_name = f"agent-{agent_id}"
ContainerName(a) == <<"agent-", a>>

\* _get_agent_dir: the custom directory, or AGENTS_DIR / agent_id
AgentDir(a, dir) == IF dir # NoDir THEN <<"custom", dir>> ELSE <<"agents", a>>

\* a container id the daemon has not handed out yet
NoContainer == [name |-> <<>>, state |-> "none", port |-> 0, data |-> <<>>]

\* a container the daemon has removed: nothing of it is left
RemovedContainer == [name |-> <<>>, state |-> "removed", port |-> 0, data |-> <<>>]

\* the containers docker_client.containers.get(name) finds
ContainersNamed(conts, name) ==
    {c \in ContainerIds :
        conts[c].state \in {"running", "exited"} /\ conts[c].name = name}

\* docker_client.containers.get(container_id) does not raise NotFound
ContainerFound(conts, cid) ==
    cid \in ContainerIds /\ conts[cid].state \in {"running", "exited"}

\* _is_container_running
IsContainerRunning(cid) ==
    ContainerFound(containers, cid) /\ containers[cid].state = "running"

\* TaskTracker.load: the dict of the records in the tasks file; {} when the
\* file does not exist
Load(reg) == [a \in {x \in AgentIds : Exists(reg[x])} |-> reg[a]]

\* an update_agent that saves the given record alone, without loading
UpdateWithoutLoad(reg, a, agent) ==
    [b \in AgentIds |-> IF b = a THEN agent ELSE NoAgent]

\* TaskTracker.remove_agent: load, delete the agent's key, save
RemoveAgent(reg, a) == [reg EXCEPT ![a] = NoAgent]

\* TaskTracker.update_agent: load, set the agent's key, save
UpdateAgent(reg, a, agent) == [reg EXCEPT ![a] = agent]

\* used_ports = {a.port for a in agents.values()}
UsedPorts(reg) == {reg[a].port : a \in {x \in AgentIds : Exists(reg[x])}}

\* while self._port_counter in used_ports: self._port_counter += 1
RECURSIVE SkipUsed(_, _)
SkipUsed(counter, used) ==
    IF counter \in used THEN SkipUsed(counter + 1, used) ELSE counter

\* an allocator that hands out the counter without consulting the registry
GetNextPortUnchecked(reg) == port_counter

\* _get_next_port: the port returned; the counter becomes this port + 1
GetNextPort(reg) == SkipUsed(port_counter, UsedPorts(reg))

InitManager ==
    /\ registry = [a \in AgentIds |-> NoAgent]
    /\ port_counter = PortBase
    /\ containers = [c \in ContainerIds |-> NoContainer]
    /\ next_container = 0
    /\ waiting = {}
    /\ now = 0
    /\ op_result = [op |-> "none", status |-> "none", error |-> <<>>]
    /\ in_flight = {}

\* the dict a public operation returns, by its status
Result(op, a, status) == [op |-> op, status |-> status, error |-> <<>>]

\* {"status": "error", "error": ...} of send_message, by its error text
SendError(text) == [op |-> "send_message", status |-> "error", error |-> text]

\* "Failed to read system prompt file: ..."
ConfigError == <<"Failed to read system prompt file">>

\* "Failed to initialize agent: ..."
InitError == <<"Failed to initialize agent">>

\* f"Agent not running: {agent.status}"
NotRunning(status) == <<"Agent not running", status>>

\* get_or_create_agent: the registry after `if agent and data_dir` stored
\* the data_dir the caller gave
WithDataDir(a, dir) ==
    IF Exists(registry[a]) /\ dir # NoDir
    THEN UpdateAgent(registry, a, [registry[a] EXCEPT !.data_dir = dir])
    ELSE registry

\* effective_data_dir = data_dir or (agent.data_dir if agent else None)
EffectiveDataDir(a, dir) ==
    IF dir # NoDir THEN dir
    ELSE IF Exists(registry[a]) THEN registry[a].data_dir ELSE NoDir

\* a start that leaves the old container in place
KeepExisting(a) == containers

\* _start_container: old_container.remove(force=True) of the container that
\* has the agent's name
RemoveExisting(a) ==
    [c \in ContainerIds |->
        IF c \in ContainersNamed(containers, ContainerName(a))
        THEN RemovedContainer
        ELSE containers[c]]

\* the deliveries whose POST /chat is still open at a live worker: the
\* request of a task ends when the container it was sent to stops
OpenAt(tasks, conts) ==
    {t \in tasks :
        \E c \in ContainerIds :
            /\ conts[c].state = "running"
            /\ conts[c].port = t.port
            /\ conts[c].name = ContainerName(t.agent_id)}

\* a start that reports the agent running as soon as the container runs
StartedRunning == "running"

\* _start_container: agent.status = "starting" once containers.run returned
StartedStatus == "starting"

\* _start_container: containers.run returned the new container; the record
\* is written with its id and the coroutine awaits the health check
RunReturns(a, agent, reg) ==
    /\ next_container < MaxContainers
    /\ LET c == next_container + 1
           started == [agent EXCEPT !.container_id = c,
                                    !.status = StartedStatus]
       IN /\ containers' =
                 [RemoveExisting(a) EXCEPT ![c] =
                     [name |-> ContainerName(a), state |-> "running",
                      port |-> agent.port,
                      data |-> AgentDir(a, agent.data_dir)]]
          /\ next_container' = c
          /\ registry' = UpdateAgent(reg, a, started)
          /\ waiting' = waiting \cup {[agent_id |-> a, agent |-> started]}
    /\ in_flight' = OpenAt(in_flight, RemoveExisting(a))
    /\ UNCHANGED op_result

\* a start that answers an APIError of containers.run by running again
RunRetried(a, agent, reg) == RunReturns(a, agent, reg)

\* _start_container: containers.run raised an APIError; `except APIError`
\* writes status error and re-raises, and send_message's `except Exception`
\* returns the error
RunRaises(a, agent, reg) ==
    /\ containers' = RemoveExisting(a)
    /\ registry' = UpdateAgent(reg, a, [agent EXCEPT !.status = "error"])
    /\ op_result' = SendError(InitError)
    /\ in_flight' = OpenAt(in_flight, RemoveExisting(a))
    /\ UNCHANGED <<next_container, waiting>>

\* _start_container(agent) called with the registry `reg` on disk, up to its
\* first await or its raise.  outcome is what the Docker daemon does:
\*   "get_error"     containers.get or old_container.remove raises an
\*                   APIError other than NotFound
\*   "api_error"     containers.run raises an APIError
\*   "started"       containers.run returns the new container
StartContainer(a, agent, reg, outcome) ==
    \/ /\ outcome = "get_error"
       /\ registry' = reg
       /\ op_result' = SendError(InitError)
       /\ UNCHANGED <<containers, next_container, waiting, in_flight>>
    \/ /\ outcome = "api_error"
       /\ RunRaises(a, agent, reg)
    \/ /\ outcome = "started"
       /\ RunReturns(a, agent, reg)

StartOutcomes == {"get_error", "api_error", "started"}

\* the task asyncio.create_task(self._dispatch_message(agent_id, port, ..))
DispatchTask(a, port) == [agent_id |-> a, port |-> port]

\* a send_message that dispatches whatever the status is
MayDispatchAlways(agent) == TRUE

\* send_message: `if agent.status != "running": return error` not taken
MayDispatch(agent) == agent.status = "running"

\* a send_message that launches the delivery without writing last_activity
NoTouch(agent) == agent

\* send_message: agent.last_activity = now, written before the dispatch
Touch(agent) == [agent EXCEPT !.last_activity = now]

\* send_message after get_or_create_agent returned `agent`, with the
\* registry `reg` on disk: the status check, the write of last_activity, the
\* launch of the delivery task and the dict returned
SendTail(a, agent, reg) ==
    IF MayDispatch(agent)
    THEN /\ registry' = UpdateAgent(reg, a, Touch(agent))
         /\ in_flight' = in_flight \cup {DispatchTask(a, agent.port)}
         /\ op_result' = Result("send_message", a, "dispatched")
    ELSE /\ registry' = reg
         /\ in_flight' = in_flight
         /\ op_result' = SendError(NotRunning(agent.status))

\* send_message whose system_prompt_file cannot be read: ValueError out of
\* get_or_create_agent, after the data_dir was stored
SendConfigError(a, dir) ==
    /\ registry' = WithDataDir(a, dir)
    /\ op_result' = SendError(ConfigError)
    /\ UNCHANGED <<port_counter, containers, next_container, waiting, now,
                   in_flight>>

\* send_message to an agent whose container is running: get_or_create_agent
\* writes last_activity and returns the record; no await is taken
SendToRunning(a, dir) ==
    /\ Exists(registry[a])
    /\ registry[a].container_id # 0
    /\ IsContainerRunning(registry[a].container_id)
    /\ LET agent == [WithDataDir(a, dir)[a] EXCEPT !.last_activity = now]
       IN SendTail(a, agent, UpdateAgent(WithDataDir(a, dir), a, agent))
    /\ UNCHANGED <<port_counter, containers, next_container, waiting, now>>

\* send_message to an agent whose container is not running: restart
SendRestart(a, dir, outcome) ==
    /\ Exists(registry[a])
    /\ registry[a].container_id # 0
    /\ ~IsContainerRunning(registry[a].container_id)
    /\ StartContainer(a, WithDataDir(a, dir)[a], WithDataDir(a, dir), outcome)
    /\ UNCHANGED <<port_counter, now>>

\* send_message to an agent that has no record, or a record without a
\* container_id: _create_agent.  The agent ids are numbered in the order in
\* which their records are first written
SendCreate(a, dir, outcome) ==
    /\ ~(Exists(registry[a]) /\ registry[a].container_id # 0)
    /\ \A b \in AgentIds : b < a => Exists(registry[b])
    /\ LET port == GetNextPort(WithDataDir(a, dir))
       IN /\ port < PortBase + MaxPorts
          /\ port_counter' = port + 1
          /\ StartContainer(a,
                 AgentInfo(0, port, "starting", now, EffectiveDataDir(a, dir)),
                 WithDataDir(a, dir), outcome)
    /\ UNCHANGED now

\* GET /health on this port gets a 200
HealthAnswers(port) ==
    \E c \in ContainerIds :
        containers[c].state = "running" /\ containers[c].port = port

\* _start_container after `await self._wait_for_container_ready`: the status
\* written is running when the health check answered and error when it timed
\* out; then the rest of send_message
StartResume(t, ready) ==
    /\ t \in waiting
    /\ ready => HealthAnswers(t.agent.port)
    /\ waiting' = waiting \ {t}
    /\ LET agent == [t.agent EXCEPT
                        !.status = IF ready THEN "running" ELSE "error"]
       IN SendTail(t.agent_id, agent, UpdateAgent(registry, t.agent_id, agent))
    /\ UNCHANGED <<port_counter, containers, next_container, now>>

\* a delivery that reports its failure to the caller of send_message
DispatchFailureReported(ok) ==
    IF ok THEN op_result ELSE SendError(InitError)

\* _dispatch_message: both the reply and the exception are only logged; what
\* send_message returned stays what it was
DispatchLogged(ok) == op_result

\* a _dispatch_message task ends: the worker replied (ok), or the request
\* failed with a network error or a timeout
DispatchDone(t, ok) ==
    /\ t \in in_flight
    /\ ok => HealthAnswers(t.port)
    /\ in_flight' = in_flight \ {t}
    /\ op_result' = DispatchLogged(ok)
    /\ UNCHANGED <<registry, port_counter, containers, next_container,
                   waiting, now>>

\* a stop_agent that treats NotFound like any other exception of the daemon
StopOutcomeStrict(reg, conts, a, fails) ==
    LET agent == reg[a]
        stopped == UpdateAgent(reg, a, [agent EXCEPT !.status = "stopped"])
    IN IF ~Exists(agent) \/ agent.container_id = 0
       THEN [reg |-> reg, conts |-> conts, ok |-> FALSE]
       ELSE IF fails \/ ~ContainerFound(conts, agent.container_id)
       THEN [reg |-> reg, conts |-> conts, ok |-> FALSE]
       ELSE [reg |-> stopped,
             conts |-> [conts EXCEPT ![agent.container_id].state = "exited"],
             ok |-> TRUE]

\* a stop_agent that removes the record of the agent it stopped
StopOutcomeRemoving(reg, conts, a, fails) ==
    LET agent == reg[a]
    IN IF ~Exists(agent) \/ agent.container_id = 0
       THEN [reg |-> reg, conts |-> conts, ok |-> FALSE]
       ELSE IF fails
       THEN [reg |-> reg, conts |-> conts, ok |-> FALSE]
       ELSE IF ~ContainerFound(conts, agent.container_id)
       THEN [reg |-> RemoveAgent(reg, a), conts |-> conts, ok |-> TRUE]
       ELSE [reg |-> RemoveAgent(reg, a),
             conts |-> [conts EXCEPT ![agent.container_id].state = "exited"],
             ok |-> TRUE]

\* stop_agent on the registry `reg` and the daemon's containers `conts`:
\* the registry, the containers and the bool returned.  `fails` is the
\* daemon raising something other than NotFound
StopOutcome(reg, conts, a, fails) ==
    LET agent == reg[a]
        stopped == UpdateAgent(reg, a, [agent EXCEPT !.status = "stopped"])
    IN IF ~Exists(agent) \/ agent.container_id = 0
       THEN [reg |-> reg, conts |-> conts, ok |-> FALSE]
       ELSE IF fails
       THEN [reg |-> reg, conts |-> conts, ok |-> FALSE]
       ELSE IF ~ContainerFound(conts, agent.container_id)
       THEN [reg |-> stopped, conts |-> conts, ok |-> TRUE]
       ELSE [reg |-> stopped,
             conts |-> [conts EXCEPT ![agent.container_id].state = "exited"],
             ok |-> TRUE]

\* stop_agent
StopAgent(a, fails) ==
    /\ registry' = StopOutcome(registry, containers, a, fails).reg
    /\ containers' = StopOutcome(registry, containers, a, fails).conts
    /\ op_result' =
           Result("stop_agent", a,
                  IF StopOutcome(registry, containers, a, fails).ok
                  THEN "true" ELSE "false")
    /\ in_flight' =
           OpenAt(in_flight, StopOutcome(registry, containers, a, fails).conts)
    /\ UNCHANGED <<port_counter, next_container, waiting, now>>

\* a sweep that does not skip the records whose status is not running
IsIdleAnyStatus(agent) ==
    Exists(agent) /\ now - agent.last_activity > IdleTimeout

\* cleanup_idle_agents: idle_minutes > IDLE_TIMEOUT_MINUTES on a record with
\* status running
IsIdle(agent) ==
    agent.status = "running" /\ now - agent.last_activity > IdleTimeout

\* a sweep that ends at the first stop_agent that fails
RECURSIVE SweepAborting(_, _, _, _, _)
SweepAborting(todo, loaded, reg, conts, failing) ==
    IF todo = {} THEN [reg |-> reg, conts |-> conts]
    ELSE LET a == CHOOSE x \in todo : \A y \in todo : x <= y
             out == IF IsIdle(loaded[a])
                    THEN StopOutcome(reg, conts, a, a \in failing)
                    ELSE [reg |-> reg, conts |-> conts, ok |-> FALSE]
         IN IF IsIdle(loaded[a]) /\ a \in failing
            THEN [reg |-> reg, conts |-> conts]
            ELSE SweepAborting(todo \ {a}, loaded, out.reg, out.conts, failing)

\* cleanup_idle_agents: the loop over the records loaded at its start
RECURSIVE Sweep(_, _, _, _, _)
Sweep(todo, loaded, reg, conts, failing) ==
    IF todo = {} THEN [reg |-> reg, conts |-> conts]
    ELSE LET a == CHOOSE x \in todo : \A y \in todo : x <= y
             out == IF IsIdle(loaded[a])
                    THEN StopOutcome(reg, conts, a, a \in failing)
                    ELSE [reg |-> reg, conts |-> conts, ok |-> FALSE]
         IN Sweep(todo \ {a}, loaded, out.reg, out.conts, failing)

\* one pass of the idle monitor
CleanupIdleAgents(failing) ==
    /\ failing \subseteq {a \in AgentIds : IsIdle(registry[a])}
    /\ \E a \in AgentIds : IsIdle(registry[a])
    /\ registry' = Sweep(AgentIds, registry, registry, containers, failing).reg
    /\ containers' =
           Sweep(AgentIds, registry, registry, containers, failing).conts
    /\ in_flight' =
           OpenAt(in_flight,
                  Sweep(AgentIds, registry, registry, containers, failing).conts)
    /\ UNCHANGED <<port_counter, next_container, waiting, now, op_result>>

\* system_prompt: None and the empty string are both falsy
NoPrompt == <<>>

\* the characters of a prompt: 0 is white space
Blank == 0

\* the system_prompt texts a caller passes
PromptTexts == {NoPrompt, <<1>>}

\* system_prompt_file: no path given
NoFile == [given |-> FALSE, exists |-> FALSE, content |-> <<>>]

\* the system_prompt_file paths a caller passes: none, a path where no file
\* is, a file of white space only, a file with content between white space
PromptFiles ==
    {NoFile,
     [given |-> TRUE, exists |-> FALSE, content |-> <<>>],
     [given |-> TRUE, exists |-> TRUE, content |-> <<Blank>>],
     [given |-> TRUE, exists |-> TRUE, content |-> <<Blank, 2, Blank>>]}

\* str.strip()
RECURSIVE Strip(_)
Strip(text) ==
    IF text = <<>> THEN <<>>
    ELSE IF Head(text) = Blank THEN Strip(Tail(text))
    ELSE IF text[Len(text)] = Blank THEN Strip(SubSeq(text, 1, Len(text) - 1))
    ELSE text

\* a _read_system_prompt_file that accepts a file without content
RaisesOnMissingOnly(file) == file.given /\ ~file.exists

\* _read_system_prompt_file raises: the file is missing or empty once
\* stripped; get_or_create_agent turns it into a ValueError
RaisesValueError(file) ==
    file.given /\ (~file.exists \/ Strip(file.content) = <<>>)

\* get_or_create_agent: resolved_system_prompt, file > text
ResolvedSystemPrompt(text, file) ==
    IF file.given THEN Strip(file.content) ELSE text

\* the directories _get_agent_dir returns
DirPaths == {AgentDir(a, dir) : a \in AgentIds, dir \in DataDirs}

\* _has_existing_session: the messages directory of the agent's session in
\* this data_dir holds a message file
HasExistingSession(a, dir) == sessions[a][dir] # <<>>

\* get_or_create_agent: `if resolved_system_prompt:` saves the prompt in the
\* effective data directory unless the agent has a record and a session there
SavePrompt(a, dir, prompt) ==
    IF prompt = NoPrompt THEN prompt_file
    ELSE IF Exists(registry[a])
            /\ HasExistingSession(a, EffectiveDataDir(a, dir))
    THEN prompt_file
    ELSE [prompt_file EXCEPT ![AgentDir(a, EffectiveDataDir(a, dir))] = prompt]

\* _load_system_prompt(agent.agent_id, agent.data_dir): the prompt the next
\* container of the agent is started with
LoadSystemPrompt(reg, files, a) == files[AgentDir(a, reg[a].data_dir)]

\* the dict of get_messages: its messages and its optional keys; "absent"
\* is a key the dict does not have
HistoryDict(msgs) ==
    [messages |-> msgs, source |-> "absent", container_status |-> "absent",
     restart_hint |-> "absent"]

\* no get_messages has returned messages
NoHistory == HistoryDict(<<>>)

InitStore ==
    /\ sessions = [a \in AgentIds |-> [dir \in DataDirs |-> <<>>]]
    /\ prompt_file = [p \in DirPaths |-> NoPrompt]
    /\ history = NoHistory

\* send_message with its system_prompt and system_prompt_file arguments,
\* when the file, if one is given, can be read: the prompt is saved before
\* the container is looked up
SendWithPrompt(a, dir, text, file, outcome) ==
    /\ ~RaisesValueError(file)
    /\ prompt_file' = SavePrompt(a, dir, ResolvedSystemPrompt(text, file))
    /\ \/ SendToRunning(a, dir)
       \/ SendRestart(a, dir, outcome)
       \/ SendCreate(a, dir, outcome)
    /\ UNCHANGED <<sessions, history>>

\* send_message with a system_prompt_file that cannot be read, whatever the
\* system_prompt text is
SendPromptFileError(a, dir, file) ==
    /\ RaisesValueError(file)
    /\ SendConfigError(a, dir)
    /\ UNCHANGED <<sessions, prompt_file, history>>

\* the data_dir whose directory a container has mounted on /data
MountedDir(data) == IF data[1] = "custom" THEN data[2] ELSE NoDir

\* the containers that serve a delivery: running, with the agent's name, on
\* the port the request was sent to
ServedBy(t) ==
    {c \in ContainerIds :
        /\ containers[c].state = "running"
        /\ containers[c].port = t.port
        /\ containers[c].name = ContainerName(t.agent_id)}

\* agent_runner.py chat: the FileSessionManager of the worker appends a
\* message of the turn to session_{AGENT_ID} under /data
WorkerPersists(t, c) ==
    /\ t \in in_flight
    /\ c \in ServedBy(t)
    /\ LET a == t.agent_id
           dir == MountedDir(containers[c].data)
       IN /\ Len(sessions[a][dir]) < MaxSession
          /\ sessions' =
                 [sessions EXCEPT ![a][dir] = Append(@, Len(@) + 1)]
    /\ UNCHANGED <<managerVars, prompt_file, history>>

\* messages[:count], the first entries instead of the last
FirstCount(msgs, count) ==
    IF count > 0 /\ Len(msgs) > count THEN SubSeq(msgs, 1, count) ELSE msgs

\* messages[-count:] if count > 0 else messages
LastCount(msgs, count) ==
    IF count > 0 /\ Len(msgs) > count
    THEN SubSeq(msgs, Len(msgs) - count + 1, Len(msgs))
    ELSE msgs

\* the count arguments of get_messages: 0 asks for every message
Counts == {0, 1}

\* agent_runner.py history: the messages of the worker's agent, which the
\* session manager restored from /data and appends to
WorkerHistory(a, c, count) ==
    LastCount(sessions[a][MountedDir(containers[c].data)], count)

\* get_messages, fallback: the message files of the session in the data
\* directory of the record
ReadMessagesFromDisk(a, agent, count) ==
    LastCount(sessions[a][agent.data_dir], count)

\* a call that ended with an exception instead of a result
Raised(op) == [op |-> op, status |-> "raised", error |-> <<"APIError">>]

\* what the Docker daemon and the worker do during get_messages:
\*   "api_error"   containers.get raises an APIError other than NotFound
\*   "http_error"  GET /history fails
\*   "disk_error"  GET /history fails and reading the message files raises
\*   "ok"          every call answers
HistoryOutcomes == {"api_error", "http_error", "disk_error", "ok"}

\* _is_container_running(agent.container_id) lets an APIError through: it
\* catches NotFound only
CheckRaises(agent, outcome) ==
    agent.container_id # 0 /\ outcome = "api_error"

\* get_messages: the messages returned, from GET /history when the
\* container runs and the worker answers, else from the message files
MessagesReturned(a, count, outcome) ==
    LET agent == registry[a]
    IN IF /\ agent.container_id # 0
          /\ IsContainerRunning(agent.container_id)
          /\ outcome = "ok"
       THEN WorkerHistory(a, agent.container_id, count)
       ELSE IF outcome = "disk_error" THEN <<>>
       ELSE ReadMessagesFromDisk(a, agent, count)

\* get_messages(agent_id, count)
GetMessages(a, count, outcome) ==
    /\ IF ~Exists(registry[a])
       THEN /\ op_result' = Result("get_messages", a, "error")
            /\ history' = NoHistory
       ELSE IF CheckRaises(registry[a], outcome)
       THEN /\ op_result' = Raised("get_messages")
            /\ history' = NoHistory
       ELSE /\ op_result' = Result("get_messages", a, "success")
            /\ history' = HistoryDict(MessagesReturned(a, count, outcome))
    /\ UNCHANGED <<registry, port_counter, containers, next_container,
                   waiting, now, in_flight, sessions, prompt_file>>

\* get_messages(agent_id, count, auto_restart=...): the method takes
\* (agent_id, count) only, so Python raises TypeError before its body runs
GetMessagesAutoRestart(a, count, auto_restart) ==
    /\ op_result' =
           [op |-> "get_messages", status |-> "raised", error |-> <<"TypeError">>]
    /\ history' = NoHistory
    /\ UNCHANGED <<registry, port_counter, containers, next_container,
                   waiting, now, in_flight, sessions, prompt_file>>

\* a listing that reports the status of the record as it is persisted
ListedStatusPersisted(agent) == agent.status

\* list_agents: the status reported for a record; a record that has a
\* container_id gets it from the container, on the loaded copy
ListedStatus(agent) ==
    IF agent.container_id # 0
    THEN IF IsContainerRunning(agent.container_id) THEN "running" ELSE "stopped"
    ELSE agent.status

\* list_agents: the status of every agent in the list returned; "absent"
\* is an agent_id the list has no entry for
Listing(reg) ==
    [a \in AgentIds |->
        IF Exists(reg[a]) THEN ListedStatus(reg[a]) ELSE "absent"]

\* list_agents: the list is returned unless _is_container_running lets an
\* APIError through; nothing is saved
ListAgents(api_error) ==
    /\ op_result' =
           IF \E a \in AgentIds :
                  CheckRaises(registry[a], IF api_error THEN "api_error" ELSE "ok")
           THEN Raised("list_agents")
           ELSE [op |-> "list_agents", status |-> "success", error |-> <<>>,
                 agents |-> Listing(registry)]
    /\ UNCHANGED <<registry, port_counter, containers, next_container,
                   waiting, now, in_flight, storeVars>>

\* a container's process ends on its own (a crash, or the worker's idle
\* shutdown timer)
ContainerExit(c) ==
    /\ containers[c].state = "running"
    /\ containers' = [containers EXCEPT ![c].state = "exited"]
    /\ in_flight' = OpenAt(in_flight, [containers EXCEPT ![c].state = "exited"])
    /\ UNCHANGED <<registry, port_counter, next_container, waiting, now,
                   op_result>>

\* time passes
Tick ==
    /\ now < MaxClock
    /\ now' = now + 1
    /\ UNCHANGED <<registry, port_counter, containers, next_container,
                   waiting, op_result, in_flight>>

\* the orchestrator process is restarted: AgentManager.__init__ runs again
\* over the tasks file and the daemon's containers; the coroutines of the
\* old process are gone
ProcessRestart ==
    /\ port_counter' = PortBase
    /\ waiting' = {}
    /\ in_flight' = {}
    /\ UNCHANGED <<registry, containers, next_container, now, op_result>>

Next ==
    \/ \E a \in AgentIds, dir \in DataDirs :
           SendConfigError(a, dir) /\ UNCHANGED <<queueVars, workerVars, storeVars, readerVars, monitor_task>>
    \/ \E a \in AgentIds, dir \in DataDirs :
           SendToRunning(a, dir) /\ UNCHANGED <<queueVars, workerVars, storeVars, readerVars, monitor_task>>
    \/ \E a \in AgentIds, dir \in DataDirs, outcome \in StartOutcomes :
           SendRestart(a, dir, outcome) /\ UNCHANGED <<queueVars, workerVars, storeVars, readerVars, monitor_task>>
    \/ \E a \in AgentIds, dir \in DataDirs, outcome \in StartOutcomes :
           SendCreate(a, dir, outcome) /\ UNCHANGED <<queueVars, workerVars, storeVars, readerVars, monitor_task>>
    \/ \E t \in waiting, ready \in BOOLEAN :
           StartResume(t, ready) /\ UNCHANGED <<queueVars, workerVars, storeVars, readerVars, monitor_task>>
    \/ \E a \in AgentIds, fails \in BOOLEAN :
           StopAgent(a, fails) /\ UNCHANGED <<queueVars, workerVars, storeVars, readerVars, monitor_task>>
    \/ \E failing \in SUBSET AgentIds :
           CleanupIdleAgents(failing) /\ UNCHANGED <<queueVars, workerVars, storeVars, readerVars, monitor_task>>
    \/ \E a \in AgentIds :
           GetMessages(a, 1, "ok") /\ UNCHANGED <<queueVars, workerVars, readerVars, monitor_task>>
    \/ \E t \in in_flight, ok \in BOOLEAN :
           DispatchDone(t, ok) /\ UNCHANGED <<queueVars, workerVars, storeVars, readerVars, monitor_task>>
    \/ \E c \in ContainerIds :
           ContainerExit(c) /\ UNCHANGED <<queueVars, workerVars, storeVars, readerVars, monitor_task>>
    \/ Tick /\ UNCHANGED <<queueVars, workerVars, storeVars, readerVars, monitor_task>>
    \/ ProcessRestart /\ UNCHANGED <<queueVars, workerVars, storeVars, readerVars, monitor_task>>

\* The operations that decide which ports are allocated and which containers
\* exist: send_message without a data_dir, stop_agent, a container's exit and
\* the process restart.  The idle monitor only calls stop_agent, and the
\* clock and the data_dir only feed last_activity and data_dir.
NextLifecycle ==
    \/ \E a \in AgentIds :
           SendToRunning(a, NoDir) /\ UNCHANGED <<queueVars, workerVars, storeVars, readerVars, monitor_task>>
    \/ \E a \in AgentIds, outcome \in StartOutcomes :
           SendRestart(a, NoDir, outcome) /\ UNCHANGED <<queueVars, workerVars, storeVars, readerVars, monitor_task>>
    \/ \E a \in AgentIds, outcome \in StartOutcomes :
           SendCreate(a, NoDir, outcome) /\ UNCHANGED <<queueVars, workerVars, storeVars, readerVars, monitor_task>>
    \/ \E t \in waiting, ready \in BOOLEAN :
           StartResume(t, ready) /\ UNCHANGED <<queueVars, workerVars, storeVars, readerVars, monitor_task>>
    \/ \E a \in AgentIds, fails \in BOOLEAN :
           StopAgent(a, fails) /\ UNCHANGED <<queueVars, workerVars, storeVars, readerVars, monitor_task>>
    \/ \E t \in in_flight, ok \in BOOLEAN :
           DispatchDone(t, ok) /\ UNCHANGED <<queueVars, workerVars, storeVars, readerVars, monitor_task>>
    \/ \E c \in ContainerIds :
           ContainerExit(c) /\ UNCHANGED <<queueVars, workerVars, storeVars, readerVars, monitor_task>>
    \/ ProcessRestart /\ UNCHANGED <<queueVars, workerVars, storeVars, readerVars, monitor_task>>

\* The calls of one orchestrator process that start and stop containers:
\* send_message without a data_dir with every outcome of the container
\* runtime, the end of the health-check wait and of a delivery, stop_agent
\* and a container's exit.
NextStartStop ==
    \/ \E a \in AgentIds :
           SendToRunning(a, NoDir) /\ UNCHANGED <<queueVars, workerVars, storeVars, readerVars, monitor_task>>
    \/ \E a \in AgentIds, outcome \in StartOutcomes :
           SendRestart(a, NoDir, outcome) /\ UNCHANGED <<queueVars, workerVars, storeVars, readerVars, monitor_task>>
    \/ \E a \in AgentIds, outcome \in StartOutcomes :
           SendCreate(a, NoDir, outcome) /\ UNCHANGED <<queueVars, workerVars, storeVars, readerVars, monitor_task>>
    \/ \E t \in waiting, ready \in BOOLEAN :
           StartResume(t, ready) /\ UNCHANGED <<queueVars, workerVars, storeVars, readerVars, monitor_task>>
    \/ \E t \in in_flight, ok \in BOOLEAN :
           DispatchDone(t, ok) /\ UNCHANGED <<queueVars, workerVars, storeVars, readerVars, monitor_task>>
    \/ \E a \in AgentIds, fails \in BOOLEAN :
           StopAgent(a, fails) /\ UNCHANGED <<queueVars, workerVars, storeVars, readerVars, monitor_task>>
    \/ \E c \in ContainerIds :
           ContainerExit(c) /\ UNCHANGED <<queueVars, workerVars, storeVars, readerVars, monitor_task>>

\* The operations the idle monitor and the dispatch of messages depend on:
\* send_message without a data_dir whose container-runtime calls succeed,
\* the end of the health-check wait and of a delivery, the passing of time,
\* the sweep of the idle monitor and a container's exit.
NextReaper ==
    \/ \E a \in AgentIds :
           SendToRunning(a, NoDir) /\ UNCHANGED <<queueVars, workerVars, storeVars, readerVars, monitor_task>>
    \/ \E a \in AgentIds :
           SendRestart(a, NoDir, "started") /\ UNCHANGED <<queueVars, workerVars, storeVars, readerVars, monitor_task>>
    \/ \E a \in AgentIds :
           SendCreate(a, NoDir, "started") /\ UNCHANGED <<queueVars, workerVars, storeVars, readerVars, monitor_task>>
    \/ \E t \in waiting, ready \in BOOLEAN :
           StartResume(t, ready) /\ UNCHANGED <<queueVars, workerVars, storeVars, readerVars, monitor_task>>
    \/ \E t \in in_flight, ok \in BOOLEAN :
           DispatchDone(t, ok) /\ UNCHANGED <<queueVars, workerVars, storeVars, readerVars, monitor_task>>
    \/ \E failing \in SUBSET AgentIds :
           CleanupIdleAgents(failing) /\ UNCHANGED <<queueVars, workerVars, storeVars, readerVars, monitor_task>>
    \/ \E c \in ContainerIds :
           ContainerExit(c) /\ UNCHANGED <<queueVars, workerVars, storeVars, readerVars, monitor_task>>
    \/ Tick /\ UNCHANGED <<queueVars, workerVars, storeVars, readerVars, monitor_task>>

\* The operations that read and write an agent's system prompt:
\* send_message with every combination of prompt text, prompt file and
\* data_dir, the end of the health-check wait and of a delivery, the
\* worker's persisting of messages, and stop_agent.
NextPrompt ==
    \/ \E a \in AgentIds, dir \in DataDirs, text \in PromptTexts,
          file \in PromptFiles :
           SendWithPrompt(a, dir, text, file, "started")
               /\ UNCHANGED <<queueVars, workerVars, readerVars, monitor_task>>
    \/ \E a \in AgentIds, dir \in DataDirs, file \in PromptFiles :
           SendPromptFileError(a, dir, file)
               /\ UNCHANGED <<queueVars, workerVars, readerVars, monitor_task>>
    \/ \E t \in waiting, ready \in BOOLEAN :
           StartResume(t, ready) /\ UNCHANGED <<queueVars, workerVars, storeVars, readerVars, monitor_task>>
    \/ \E t \in in_flight, c \in ContainerIds :
           WorkerPersists(t, c) /\ UNCHANGED <<queueVars, workerVars, readerVars, monitor_task>>
    \/ \E t \in in_flight, ok \in BOOLEAN :
           DispatchDone(t, ok) /\ UNCHANGED <<queueVars, workerVars, storeVars, readerVars, monitor_task>>
    \/ \E a \in AgentIds :
           StopAgent(a, FALSE) /\ UNCHANGED <<queueVars, workerVars, storeVars, readerVars, monitor_task>>

\* the records a caller hands to TaskTracker.update_agent
TrackerRecords ==
    {AgentInfo(0, port, status, activity, NoDir) :
        port \in PortBase..(PortBase + MaxPorts - 1),
        status \in {"running", "stopped"},
        activity \in 0..MaxClock}

\* tracker.update_agent(agent) on a TaskTracker of its own
TrackerUpdate(a, agent) ==
    /\ registry' = UpdateAgent(registry, a, agent)
    /\ UNCHANGED <<port_counter, containers, next_container, waiting, now,
                   op_result, in_flight, storeVars>>

\* tracker.remove_agent(agent_id) on a TaskTracker of its own
TrackerRemove(a) ==
    /\ registry' = RemoveAgent(registry, a)
    /\ UNCHANGED <<port_counter, containers, next_container, waiting, now,
                   op_result, in_flight, storeVars>>

\* TaskTracker alone, as tests/test_agent_manager.py drives it
NextTracker ==
    \/ \E a \in AgentIds, agent \in TrackerRecords :
           TrackerUpdate(a, agent) /\ UNCHANGED <<queueVars, workerVars, readerVars, monitor_task>>
    \/ \E a \in AgentIds :
           TrackerRemove(a) /\ UNCHANGED <<queueVars, workerVars, readerVars, monitor_task>>

\* The public operations and the idle monitor on agents without a data_dir:
\* send_message whose container-runtime calls succeed and whose health check
\* answers, the end of a delivery, stop_agent and the sweep with their
\* failures, get_messages and list_agents with theirs, and the clock.
NextRegistry ==
    \/ \E a \in AgentIds :
           SendToRunning(a, NoDir) /\ UNCHANGED <<queueVars, workerVars, storeVars, readerVars, monitor_task>>
    \/ \E a \in AgentIds :
           SendRestart(a, NoDir, "started")
               /\ UNCHANGED <<queueVars, workerVars, storeVars, readerVars, monitor_task>>
    \/ \E a \in AgentIds :
           SendCreate(a, NoDir, "started")
               /\ UNCHANGED <<queueVars, workerVars, storeVars, readerVars, monitor_task>>
    \/ \E t \in waiting :
           StartResume(t, TRUE) /\ UNCHANGED <<queueVars, workerVars, storeVars, readerVars, monitor_task>>
    \/ \E t \in in_flight, ok \in BOOLEAN :
           DispatchDone(t, ok) /\ UNCHANGED <<queueVars, workerVars, storeVars, readerVars, monitor_task>>
    \/ \E a \in AgentIds, fails \in BOOLEAN :
           StopAgent(a, fails) /\ UNCHANGED <<queueVars, workerVars, storeVars, readerVars, monitor_task>>
    \/ \E failing \in SUBSET AgentIds :
           CleanupIdleAgents(failing)
               /\ UNCHANGED <<queueVars, workerVars, storeVars, readerVars, monitor_task>>
    \/ \E a \in AgentIds, outcome \in {"ok", "api_error"} :
           GetMessages(a, 1, outcome) /\ UNCHANGED <<queueVars, workerVars, readerVars, monitor_task>>
    \/ \E api_error \in BOOLEAN :
           ListAgents(api_error) /\ UNCHANGED <<queueVars, workerVars, readerVars, monitor_task>>
    \/ Tick /\ UNCHANGED <<queueVars, workerVars, storeVars, readerVars, monitor_task>>

\* The operations get_messages depends on: send_message with and without a
\* data_dir whose container-runtime calls succeed, the end of the
\* health-check wait and of a delivery, the worker's persisting of messages,
\* stop_agent, a container's exit, and get_messages and list_agents with
\* every outcome of the container runtime, the worker and the file system.
NextHistory ==
    \/ \E a \in AgentIds, dir \in DataDirs :
           SendToRunning(a, dir) /\ UNCHANGED <<queueVars, workerVars, storeVars, readerVars, monitor_task>>
    \/ \E a \in AgentIds, dir \in DataDirs :
           SendRestart(a, dir, "started")
               /\ UNCHANGED <<queueVars, workerVars, storeVars, readerVars, monitor_task>>
    \/ \E a \in AgentIds, dir \in DataDirs :
           SendCreate(a, dir, "started")
               /\ UNCHANGED <<queueVars, workerVars, storeVars, readerVars, monitor_task>>
    \/ \E t \in waiting, ready \in BOOLEAN :
           StartResume(t, ready) /\ UNCHANGED <<queueVars, workerVars, storeVars, readerVars, monitor_task>>
    \/ \E t \in in_flight, c \in ContainerIds :
           WorkerPersists(t, c) /\ UNCHANGED <<queueVars, workerVars, readerVars, monitor_task>>
    \/ \E t \in in_flight, ok \in BOOLEAN :
           DispatchDone(t, ok) /\ UNCHANGED <<queueVars, workerVars, storeVars, readerVars, monitor_task>>
    \/ \E a \in AgentIds, fails \in BOOLEAN :
           StopAgent(a, fails) /\ UNCHANGED <<queueVars, workerVars, storeVars, readerVars, monitor_task>>
    \/ \E a \in AgentIds, count \in Counts, outcome \in HistoryOutcomes :
           GetMessages(a, count, outcome) /\ UNCHANGED <<queueVars, workerVars, readerVars, monitor_task>>
    \/ \E a \in AgentIds, count \in Counts, auto_restart \in BOOLEAN :
           GetMessagesAutoRestart(a, count, auto_restart)
               /\ UNCHANGED <<queueVars, workerVars, readerVars, monitor_task>>
    \/ \E api_error \in BOOLEAN :
           ListAgents(api_error) /\ UNCHANGED <<queueVars, workerVars, readerVars, monitor_task>>
    \/ \E c \in ContainerIds :
           ContainerExit(c) /\ UNCHANGED <<queueVars, workerVars, storeVars, readerVars, monitor_task>>

\* send_message with every combination of prompt text and prompt file and
\* without a data_dir, the end of the health-check wait, and stop_agent.
NextConfig ==
    \/ \E a \in AgentIds, text \in PromptTexts, file \in PromptFiles :
           SendWithPrompt(a, NoDir, text, file, "started")
               /\ UNCHANGED <<queueVars, workerVars, readerVars, monitor_task>>
    \/ \E a \in AgentIds, file \in PromptFiles :
           SendPromptFileError(a, NoDir, file)
               /\ UNCHANGED <<queueVars, workerVars, readerVars, monitor_task>>
    \/ \E t \in waiting, ready \in BOOLEAN :
           StartResume(t, ready) /\ UNCHANGED <<queueVars, workerVars, storeVars, readerVars, monitor_task>>
    \/ \E a \in AgentIds :
           StopAgent(a, FALSE) /\ UNCHANGED <<queueVars, workerVars, storeVars, readerVars, monitor_task>>

(***************************************************************************)
(* Specifications.                                                         *)
(***************************************************************************)
\* self._idle_monitor_task = None: no monitor_loop task; `sweeps` counts the
\* sweeps monitor_loop has begun and `raised` holds those that raised
NoMonitor == [state |-> "none", sweeps |-> 0, raised |-> {}]

InitReader ==
    /\ agent_messages = <<>>
    /\ message_files = {}
    /\ flat_file = <<>>
    /\ formatted = <<>>

Init ==
    /\ InitQueue /\ InitWorker /\ InitManager /\ InitStore /\ InitReader
    /\ monitor_task = NoMonitor

SpecQueue == Init /\ [][NextQueue]_vars

\* the event loop runs every task that is ready: the consumer loop and the
\* handlers whose future is resolved are scheduled fairly
FairSpecQueue ==
    /\ Init
    /\ [][NextQueue]_vars
    /\ WF_vars(ProcessorStep /\ UNCHANGED <<workerVars, managerVars, storeVars, readerVars, monitor_task>>)
    /\ \A r \in Requests : WF_vars(HandleChatReturn(r) /\ UNCHANGED <<workerVars, managerVars, storeVars, readerVars, monitor_task>>)

SpecWorker == Init /\ [][NextWorker]_vars

Spec == Init /\ [][Next]_vars

SpecLifecycle == Init /\ [][NextLifecycle]_vars

SpecReaper == Init /\ [][NextReaper]_vars

SpecStartStop == Init /\ [][NextStartStop]_vars

SpecPrompt == Init /\ [][NextPrompt]_vars

SpecConfig == Init /\ [][NextConfig]_vars

SpecHistory == Init /\ [][NextHistory]_vars

SpecRegistry == Init /\ [][NextRegistry]_vars

SpecTracker == Init /\ [][NextTracker]_vars

(***************************************************************************)
(* Claims about the worker and its request queue.                          *)
(***************************************************************************)

\* C1: for any number of concurrent POST /chat requests to one worker, at
\* most one conversation turn is in execution against the agent instance in
\* every reachable state.
C1_AtMostOneTurnExecuting == Cardinality(TurnsExecuting) <= 1

\* the messages of the entries waiting on the queue, in queue order
WaitingMessages ==
    [i \in 1..Len(request_queue) |-> req_message[request_queue[i]]]

\* C2: the queue starts processing the submissions in strict arrival order:
\* the messages processed so far, followed by the messages still waiting,
\* are the messages in the order they were enqueued.
C2_ProcessedInArrivalOrder ==
    processed_order \o WaitingMessages = messages

\* C2 witness: a turn has been started while two submissions with different
\* messages were waiting behind it.
C2_Witness ==
    /\ Len(processed_order) >= 1
    /\ Len(request_queue) >= 2
    /\ WaitingMessages[1] # WaitingMessages[2]

\* C3: each submitter receives the result computed from its own message and
\* from no other, so submissions with distinct messages receive distinct
\* results.
C3_OwnResult ==
    /\ \A r \in Requests :
           handler_pc[r] = "returned" =>
               handler_result[r] \in {SuccessResult(req_message[r]),
                                      ErrorResult(req_message[r])}
    /\ \A r1, r2 \in Requests :
           /\ handler_pc[r1] = "returned"
           /\ handler_pc[r2] = "returned"
           /\ req_message[r1] # req_message[r2]
           => handler_result[r1].response # handler_result[r2].response

\* C3 witness: every submitter has returned, two of them with different
\* messages.
C3_Witness ==
    /\ GatherDone
    /\ \E r1, r2 \in Requests : req_message[r1] # req_message[r2]

\* the result a submission is owed: an error if its own turn raised, a
\* success otherwise
OwnResult(r) ==
    IF r \in raised THEN ErrorResult(req_message[r])
    ELSE SuccessResult(req_message[r])

\* a raised turn resolves only its own future, and the loop is still alive
\* while a submitter waits
ErrorDelivered ==
    /\ \A r \in Requests :
           FutureDone(response_future[r]) => response_future[r] = OwnResult(r)
    /\ GatherDone \/ processor_pc \in {"get", "work"}

\* C4: a turn that raises is delivered as an error result to its own
\* submitter only, the consumer loop keeps running, and every submission
\* waiting after a raised turn still completes with its own result, a
\* success when its own turn does not raise.
C4_ErrorDoesNotStopQueue ==
    /\ []ErrorDelivered
    /\ \A r \in Requests :
           (raised # {} /\ handler_pc[r] = "awaiting")
               ~> (handler_pc[r] = "returned" /\ handler_result[r] = OwnResult(r))

\* C4 witness: the first turn raised, and a later submission returned with a
\* success.
C4_Witness ==
    \E r1, r2 \in Requests :
        /\ r1 \in raised
        /\ processed_order # <<>>
        /\ processed_order[1] = req_message[r1]
        /\ r2 \notin raised
        /\ handler_pc[r2] = "returned"
        /\ handler_result[r2] = SuccessResult(req_message[r2])
        /\ handler_result[r1] = ErrorResult(req_message[r1])
        /\ req_message[r1] # req_message[r2]

\* C5: under fair scheduling no accepted request is dropped: every request
\* on the queue is eventually dequeued and its submitter eventually receives
\* a result.
C5_NoRequestDropped ==
    \A r \in Requests :
        /\ (\E i \in 1..Len(request_queue) : request_queue[i] = r)
               ~> (\A i \in 1..Len(request_queue) : request_queue[i] # r)
        /\ (handler_pc[r] = "awaiting") ~> (handler_pc[r] = "returned")

\* C5 witness: all submissions were waiting at once and each has returned.
C5_Witness ==
    /\ GatherDone
    /\ Len(processed_order) = NumRequests
    /\ request_queue = <<>>

\* what GET /health has to report of the worker's state
HealthReportsQueue(body) ==
    /\ "processing" \in DOMAIN body
    /\ "queue_depth" \in DOMAIN body
    /\ body.processing = (TurnsExecuting # {})
    /\ body.queue_depth = 0

\* C6: every GET /health response reports processing = true exactly when a
\* turn is executing, and queue_depth equal to the number of waiting entries.
C6_HealthReportsProcessing ==
    [][Health => HealthReportsQueue(health_response')]_vars

(***************************************************************************)
(* Claims about the orchestrator.                                          *)
(***************************************************************************)

\* the agents that have a record in the registry
Registered == {a \in AgentIds : Exists(registry[a])}

\* C7: the port allocator never returns a port held by a record of the
\* registry: no two registered agents share a port, and no start that is
\* awaiting its health check holds the port of another agent's record.
C7_PortsUnique ==
    /\ \A a1, a2 \in Registered :
           a1 # a2 => registry[a1].port # registry[a2].port
    /\ \A t \in waiting : \A a \in Registered :
           a # t.agent_id => t.agent.port # registry[a].port

\* C7 witness: after a process restart reset the counter to a value below a
\* registered port, a second agent was given a port out of counter order,
\* and its start is in progress.
C7_Witness ==
    /\ port_counter \in UsedPorts(registry)
    /\ \E t \in waiting :
           /\ t.agent.port = port_counter - 1
           /\ \E a \in Registered :
                  a # t.agent_id /\ registry[a].port = port_counter

\* the containers created by this step for agent a
CreatedFor(a) ==
    {c \in ContainerIds :
        /\ containers[c].state = "none"
        /\ containers'[c].state = "running"
        /\ containers'[c].name = ContainerName(a)}

\* C8: an agent's port is allocated once and never changes: every step
\* leaves the port of an existing record as it is, and every container
\* (re)started for the agent is bound to the record's port and data_dir.
C8_PortAllocatedOnce ==
    [][\A a \in AgentIds :
          Exists(registry[a]) =>
              /\ registry'[a].port = registry[a].port
              /\ \A c \in CreatedFor(a) :
                     /\ containers'[c].port = registry[a].port
                     /\ containers'[c].data =
                            AgentDir(a, registry'[a].data_dir)]_vars

\* C9: at most one container exists under an agent's container name at any
\* time, in every interleaving of send_message calls to the agent.
C9_OneContainerPerAgent ==
    \A a \in AgentIds :
        Cardinality(ContainersNamed(containers, ContainerName(a))) <= 1

\* C9 witness: two send_message calls to one agent are both awaiting the
\* health check; the container the first one started was removed when the
\* second one started its own.
C9_Witness ==
    \E t1, t2 \in waiting :
        /\ t1.agent_id = t2.agent_id
        /\ containers[t1.agent.container_id].state = "removed"
        /\ containers[t2.agent.container_id].state = "running"

\* the edges of the lifecycle state machine
LifecycleEdges ==
    {<<"absent", "starting">>, <<"starting", "running">>,
     <<"running", "stopped">>, <<"stopped", "starting">>,
     <<"error", "starting">>}
    \cup {<<s, "error">> : s \in {"absent", "starting", "running", "stopped"}}

\* C10: every change of an agent's persisted status follows an edge of the
\* lifecycle state machine.
C10_StatusFollowsLifecycle ==
    [][\A a \in AgentIds :
          registry'[a].status # registry[a].status =>
              <<registry[a].status, registry'[a].status>> \in LifecycleEdges]_vars

\* C11: the error status is not terminal: a send_message to an agent whose
\* record has status error never returns through the path of
\* get_or_create_agent that hands back the record without starting a
\* container; it makes a creation attempt.
C11_ErrorNotTerminal ==
    [][\A a \in AgentIds, dir \in DataDirs :
          registry[a].status = "error" => ~SendToRunning(a, dir)]_vars

\* C12: an agent's status becomes running only in the step that ends the
\* health-check wait of one of its starts, and only when the worker's health
\* endpoint answers on the agent's port; when the wait times out, the status
\* written is error and send_message returns status error without
\* dispatching.
C12_RunningOnlyAfterHealth ==
    [][/\ \A a \in AgentIds :
              (registry'[a].status = "running" /\ registry[a].status # "running")
                  => \E t \in waiting \ waiting' :
                         t.agent_id = a /\ HealthAnswers(t.agent.port)
       /\ \A t \in waiting :
              StartResume(t, FALSE)
                  => /\ registry'[t.agent_id].status = "error"
                     /\ op_result' = SendError(NotRunning("error"))
                     /\ in_flight' = in_flight]_vars

\* C12 witness: one agent is running after its health check answered, and
\* the start of another agent timed out: its container runs, its status is
\* error and send_message returned the error.
C12_Witness ==
    \E a, b \in AgentIds :
        /\ registry[a].status = "running"
        /\ registry[b].status = "error"
        /\ IsContainerRunning(registry[b].container_id)
        /\ op_result = SendError(NotRunning("error"))

\* the running containers that have agent a's container name
RunningFor(conts, a) ==
    {c \in ContainersNamed(conts, ContainerName(a)) : conts[c].state = "running"}

\* C13: an APIError of containers.run is not retried within the call: the
\* call makes no second attempt (no container is created or left running
\* for the agent and no health-check wait begins), the status persisted is
\* error, and send_message returns status error.
C13_ApiErrorNotRetried ==
    [][\A a \in AgentIds, dir \in DataDirs :
          (/\ dir # NoDir => registry'[a].data_dir = dir
           /\ \/ SendCreate(a, dir, "api_error")
              \/ SendRestart(a, dir, "api_error"))
              => /\ registry'[a].status = "error"
                 /\ op_result' = SendError(InitError)
                 /\ next_container' = next_container
                 /\ RunningFor(containers', a) = {}
                 /\ waiting' = waiting]_vars

\* C13 witness: the first creation of an agent met an APIError: the record
\* was written with status error and without a container, and send_message
\* returned the initialisation error.
C13_Witness ==
    \E a \in AgentIds :
        /\ registry[a].status = "error"
        /\ registry[a].container_id = 0
        /\ op_result = SendError(InitError)

\* C14: stop_agent on a record that has a container_id marks the record
\* stopped and reports success, both when the container is stopped and when
\* the daemon no longer has it, and a second stop_agent right after it
\* reports success again and leaves the registry and the containers as the
\* first call left them.
C14_StopIdempotent ==
    [][\A a \in AgentIds :
          (/\ Exists(registry[a])
           /\ registry[a].container_id # 0
           /\ StopAgent(a, FALSE))
              => /\ registry'[a].status = "stopped"
                 /\ op_result' = Result("stop_agent", a, "true")
                 /\ StopOutcome(registry', containers', a, FALSE) =
                        [reg |-> registry', conts |-> containers', ok |-> TRUE]]_vars

\* C14 witness: stop_agent returned True for an agent whose container the
\* daemon no longer has; the record is stopped.
C14_Witness ==
    /\ op_result = Result("stop_agent", 0, "true")
    /\ \E a \in AgentIds :
           /\ registry[a].status = "stopped"
           /\ registry[a].container_id # 0
           /\ ~ContainerFound(containers, registry[a].container_id)

\* the agent's record says running and its last activity is more than the
\* threshold ago
IdleBeyondThreshold(a) ==
    registry[a].status = "running"
        /\ now - registry[a].last_activity > IdleTimeout

\* the agent's record says something else than running, or its last
\* activity is less than the threshold ago
FreshOrNotRunning(a) ==
    registry[a].status # "running"
        \/ now - registry[a].last_activity < IdleTimeout

\* the containers that run after this step
RunningAfter == {c \in ContainerIds : containers'[c].state = "running"}

\* the containers this step changes
ContainersChanged == {c \in ContainerIds : containers'[c] # containers[c]}

\* C15: one sweep of the idle monitor in which no stop fails leaves every
\* agent that was running and idle for longer than the threshold with
\* status stopped and without a running container; any sweep leaves the
\* record and the container of every agent that was idle for less than the
\* threshold, or whose status was not running, as they were.
C15_SweepStopsIdle ==
    [][\A failing \in SUBSET AgentIds :
          CleanupIdleAgents(failing) =>
              \A a \in AgentIds :
                  /\ (failing = {} /\ IdleBeyondThreshold(a))
                         => /\ registry'[a].status = "stopped"
                            /\ registry'[a].container_id \notin RunningAfter
                  /\ FreshOrNotRunning(a)
                         => /\ registry'[a] = registry[a]
                            /\ registry[a].container_id \notin ContainersChanged]_vars

\* C15 witness: the clock is two ticks on; an agent that was running is
\* stopped and its container exited, while an agent that was active in
\* this tick is still running.
C15_Witness ==
    \E a, b \in AgentIds :
        /\ registry[a].status = "stopped"
        /\ containers[registry[a].container_id].state = "exited"
        /\ registry[b].status = "running"
        /\ now - registry[b].last_activity < IdleTimeout
        /\ IsContainerRunning(registry[b].container_id)

\* C16: in every reachable state, a sweep in which the stop of some agents
\* fails still stops every other agent that is running and idle beyond the
\* threshold, also those the loop reaches after the failure; the agents
\* whose stop failed keep their record.
C16_SweepContinuesOnError ==
    \A failing \in SUBSET {a \in AgentIds : IdleBeyondThreshold(a)} :
        failing # {} =>
            LET out == Sweep(AgentIds, registry, registry, containers, failing)
            IN \A a \in AgentIds :
                   IdleBeyondThreshold(a) =>
                       IF a \in failing
                       THEN out.reg[a] = registry[a]
                       ELSE /\ out.reg[a].status = "stopped"
                            /\ out.conts[registry[a].container_id].state
                                   # "running"

\* C16 witness: an agent that has been running and idle beyond the
\* threshold is still running (its stop failed), and an agent that comes
\* after it in the registry was stopped by the sweep.
C16_Witness ==
    \E a, b \in AgentIds :
        /\ a < b
        /\ IdleBeyondThreshold(a)
        /\ IsContainerRunning(registry[a].container_id)
        /\ registry[b].status = "stopped"
        /\ containers[registry[b].container_id].state = "exited"

\* the delivery tasks this step launches
Launched == in_flight' \ in_flight

\* C17: whenever send_message launches a delivery task for an agent, the
\* registry already holds the agent's last_activity of this moment: the
\* write of last_activity is not left to the delivery or to a later step.
C17_ActivityBeforeDispatch ==
    [][\A t \in Launched :
          registry'[t.agent_id].last_activity = now]_vars

\* C17 witness: a delivery is in flight to an agent whose record was first
\* written in an earlier tick than the one of the dispatch.
C17_Witness ==
    \E t \in in_flight :
        /\ now > 0
        /\ registry[t.agent_id].last_activity = now
        /\ registry[t.agent_id].status = "running"

\* C18: the idle monitor never stops an agent while a delivery dispatched to
\* it is still awaiting the worker's reply: a sweep leaves the record of
\* such an agent as it is and the delivery in flight.
C18_NotReapedMidFlight ==
    [][\A failing \in SUBSET AgentIds :
          CleanupIdleAgents(failing) =>
              \A t \in in_flight :
                  /\ registry'[t.agent_id] = registry[t.agent_id]
                  /\ t \in in_flight']_vars

\* C19: send_message to an agent that is running after get_or_create_agent
\* returns dispatched while the delivery is still in flight, and the end of
\* a delivery, with the worker's reply or with a failure, changes neither
\* what send_message returned nor the registry.
C19_DispatchedWithoutWaiting ==
    [][/\ \A a \in AgentIds, dir \in DataDirs :
              (registry[a].status = "running" /\ SendToRunning(a, dir))
                  => /\ op_result' = Result("send_message", a, "dispatched")
                     /\ DispatchTask(a, registry[a].port) \in in_flight'
       /\ \A t \in waiting :
              StartResume(t, TRUE)
                  => /\ op_result' = Result("send_message", t.agent_id, "dispatched")
                     /\ DispatchTask(t.agent_id, t.agent.port) \in in_flight'
       /\ \A t \in in_flight, ok \in BOOLEAN :
              DispatchDone(t, ok)
                  => /\ op_result' = op_result
                     /\ registry' = registry]_vars

\* C19 witness: send_message returned dispatched to a running agent whose
\* container still runs, and the delivery has ended since.
C19_Witness ==
    /\ op_result = Result("send_message", 0, "dispatched")
    /\ in_flight = {}
    /\ \E a \in AgentIds :
           /\ registry[a].status = "running"
           /\ IsContainerRunning(registry[a].container_id)

\* C20: a delivery task is launched only for an agent whose status is
\* running and only by a send_message that returns dispatched; a
\* send_message that finds the status not running after
\* get_or_create_agent returns the error naming that status and launches
\* nothing.
C20_DispatchOnlyToRunning ==
    [][/\ \A t \in Launched :
              /\ registry'[t.agent_id].status = "running"
              /\ op_result'.status = "dispatched"
       /\ \A a \in AgentIds, dir \in DataDirs :
              (registry[a].status # "running" /\ SendToRunning(a, dir))
                  => /\ op_result' = SendError(NotRunning(registry[a].status))
                     /\ in_flight' = in_flight]_vars

\* C20 witness: send_message to an agent whose record says error while its
\* container runs returned `Agent not running: error`, in a later tick than
\* the one of the start, and no delivery to the agent is in flight.
C20_Witness ==
    \E a \in AgentIds :
        /\ registry[a].status = "error"
        /\ IsContainerRunning(registry[a].container_id)
        /\ registry[a].last_activity = now
        /\ now > 0
        /\ op_result = SendError(NotRunning("error"))
        /\ \A t \in in_flight : t.agent_id # a

(***************************************************************************)
(* Claims about configuration errors, get_messages, the registry and the   *)
(* stored system prompt.                                                   *)
(***************************************************************************)

\* the file is missing, or it holds nothing but white space
Unusable(file) ==
    file.given
        /\ (~file.exists
            \/ \A i \in 1..Len(file.content) : file.content[i] = Blank)

\* C21: a send_message whose system prompt file is missing or empty returns
\* status error with the prompt-file error and performs no container-runtime
\* action: no container is looked up and removed, created or started, no
\* port is allocated, no health-check wait begins and nothing is dispatched.
C21_ConfigErrorBeforeContainer ==
    [][\A a \in AgentIds, dir \in DataDirs, file \in PromptFiles :
          (/\ Unusable(file)
           /\ (Exists(registry[a]) /\ dir # NoDir)
                  => registry'[a].data_dir = dir
           /\ \/ SendPromptFileError(a, dir, file)
              \/ \E text \in PromptTexts :
                     SendWithPrompt(a, dir, text, file, "started"))
              => /\ op_result' = SendError(ConfigError)
                 /\ containers' = containers
                 /\ next_container' = next_container
                 /\ port_counter' = port_counter
                 /\ waiting' = waiting
                 /\ in_flight' = in_flight
                 /\ prompt_file' = prompt_file]_vars

\* C21 witness: send_message returned the prompt-file error for an agent
\* that has a record and a stopped container: the container is still there
\* and no other container was created.
C21_Witness ==
    /\ op_result = SendError(ConfigError)
    /\ \E a \in AgentIds :
           /\ registry[a].status = "stopped"
           /\ containers[registry[a].container_id].state = "exited"
           /\ next_container = 1

\* C22: no public operation ends with an exception of the container
\* runtime: get_messages and list_agents return a result also when the check
\* of a container's state meets an API error.
C22_NoExceptionPropagates ==
    /\ op_result # Raised("get_messages")
    /\ op_result # Raised("list_agents")

\* the agent has a record and its container is not running
NotRunningAgent(a) ==
    Exists(registry[a]) /\ ~IsContainerRunning(registry[a].container_id)

\* C23: get_messages with auto_restart=false (or without the argument) for an
\* agent whose container is not running returns the messages of the message
\* files with source disk, container_status stopped and a restart hint, and
\* starts no container and changes no record.
C23_DiskWhenNotRunning ==
    [][\A a \in AgentIds, count \in Counts :
          (/\ NotRunningAgent(a)
           /\ \/ GetMessagesAutoRestart(a, count, FALSE)
              \/ GetMessages(a, count, "ok")
              \/ GetMessages(a, count, "http_error"))
              => /\ op_result' = Result("get_messages", a, "success")
                 /\ history'.messages = ReadMessagesFromDisk(a, registry[a], count)
                 /\ history'.source = "disk"
                 /\ history'.container_status = "stopped"
                 /\ history'.restart_hint # "absent"
                 /\ containers' = containers
                 /\ waiting' = waiting
                 /\ registry' = registry]_vars

\* C24: get_messages with auto_restart=true for an agent whose container is
\* not running starts one container for the agent and answers with source
\* live.
C24_AutoRestartAnswersLive ==
    [][\A a \in AgentIds, count \in Counts :
          (/\ NotRunningAgent(a)
           /\ registry[a].container_id # 0
           /\ GetMessagesAutoRestart(a, count, TRUE))
              => /\ next_container' = next_container + 1
                 /\ RunningFor(containers', a) # {}
                 /\ history'.source = "live"]_vars

\* C25: get_messages for an agent whose container runs and whose worker
\* answers GET /history returns the worker's messages with status success,
\* container_status running, the tag of the live worker as source, and no
\* restart hint.
C25_LiveWhenRunning ==
    [][\A a \in AgentIds, count \in Counts :
          (/\ Exists(registry[a])
           /\ IsContainerRunning(registry[a].container_id)
           /\ GetMessages(a, count, "ok"))
              => /\ op_result' = Result("get_messages", a, "success")
                 /\ history'.messages =
                        WorkerHistory(a, registry[a].container_id, count)
                 /\ history'.container_status = "running"
                 /\ history'.source \in {"live", "container"}
                 /\ history'.restart_hint = "absent"]_vars

\* s is t or the beginning of t
IsPrefix(s, t) == Len(s) <= Len(t) /\ SubSeq(t, 1, Len(s)) = s

\* the directory the agent's latest container has mounted, after this step
MountedAfter(a) == MountedDir(containers'[registry'[a].container_id].data)

\* C26: a restart of a stopped agent preserves its session: the messages
\* the restarted container's worker holds, which get_messages returns from
\* then on, begin with the messages get_messages returned before the restart.
C26_RestartPreservesSession ==
    [][\A a \in AgentIds, dir \in DataDirs :
          SendRestart(a, dir, "started")
              => IsPrefix(ReadMessagesFromDisk(a, registry[a], 0),
                          sessions'[a][MountedAfter(a)])]_vars

\* the agent ids that are keys of the tasks file after this step
RegisteredAfter == {a \in AgentIds : registry'[a].status # "absent"}

\* C27: no operation removes an agent's record: send_message, get_messages,
\* list_agents, stop_agent and the sweeps of the idle monitor, failed ones
\* included, leave every registered agent id registered.
C27_RecordNeverDeleted ==
    [][Registered \subseteq RegisteredAfter]_vars

\* C27 witness: both agents are registered and stopped, one of them idle
\* beyond the threshold of the idle monitor and the other not, and a
\* get_messages has returned since.
C27_Witness ==
    /\ Registered = AgentIds
    /\ \E a, b \in AgentIds :
           /\ a # b
           /\ registry[a].status = "stopped"
           /\ registry[b].status = "stopped"
           /\ now - registry[b].last_activity > IdleTimeout
           /\ now - registry[a].last_activity <= IdleTimeout
    /\ op_result.op = "get_messages"

\* C28: the last_activity of a record never decreases: every write of the
\* registry leaves it at least what the registry held before, whatever the
\* interleaving of send_message calls, starts that await their health check
\* and sweeps.
C28_ActivityMonotone ==
    [][\A a \in AgentIds :
          registry'[a].last_activity >= registry[a].last_activity]_vars

\* the dict load returns after this step
LoadedAfter == Load(registry')

\* every key but a maps to the same record before and after this step
OthersUnchanged(a) ==
    \A b \in AgentIds \ {a} :
        /\ b \in DOMAIN LoadedAfter <=> b \in DOMAIN Load(registry)
        /\ b \in DOMAIN LoadedAfter => LoadedAfter[b] = Load(registry)[b]

\* C29: load on a tasks file that was never written returns the empty map;
\* after update_agent(a) load maps the agent's id to a and every other id to
\* what it mapped to before; after remove_agent(id) the id is no key and
\* every other id maps to what it mapped to before.
C29_TrackerKeyed ==
    /\ DOMAIN Load(registry) = {}
    /\ [][/\ \A a \in AgentIds, agent \in TrackerRecords :
                (registry'[a] = agent /\ TrackerUpdate(a, agent))
                    => /\ a \in DOMAIN LoadedAfter
                       /\ LoadedAfter[a] = agent
                       /\ OthersUnchanged(a)
          /\ \A a \in AgentIds :
                TrackerRemove(a)
                    => /\ a \notin DOMAIN LoadedAfter
                       /\ OthersUnchanged(a)]_vars

\* C29 witness: two records were written with different ports, the first of
\* them was updated to stopped after the second was written, and nothing
\* else of the orchestrator has run.
C29_Witness ==
    /\ DOMAIN Load(registry) = AgentIds
    /\ \E a, b \in AgentIds :
           /\ a # b
           /\ registry[a].status = "stopped"
           /\ registry[b].status = "running"
           /\ registry[a].port # registry[b].port
    /\ next_container = 0

\* the agent has a record and its session holds messages
HasPersistedMessages(a) ==
    Exists(registry[a]) /\ sessions[a][registry[a].data_dir] # <<>>

\* C30: once an agent has persisted messages, no send_message to it that
\* carries a system prompt, as text or as file, changes the system prompt
\* stored for the agent; and whenever a send_message with a prompt file
\* stores a prompt, it is the content of the file, also when a text is given.
C30_PromptFixedOnceMessages ==
    [][\A a \in AgentIds, dir \in DataDirs, text \in PromptTexts,
         file \in PromptFiles :
          SendWithPrompt(a, dir, text, file, "started")
              => /\ HasPersistedMessages(a)
                     => LoadSystemPrompt(registry', prompt_file', a) =
                            LoadSystemPrompt(registry, prompt_file, a)
                 /\ (file.given /\ prompt_file' # prompt_file)
                     => \E p \in DirPaths :
                            /\ prompt_file'[p] # prompt_file[p]
                            /\ prompt_file'[p] = <<2>>]_vars

(***************************************************************************)
(* The session history: docker/agent_runner.py history and the fallback of *)
(* get_messages in agent_manager.py.                                       *)
(***************************************************************************)

\* The messages of a conversation, {"role": ..., "content": ...}.  The
\* content is a str (kind "str") or a list of content items (kind "list");
\* the items are {"type": "text", "text": ...},
\* {"type": "tool_use", "name": ..., "input": ...} and
\* {"type": "tool_result", "content": ...}.  In order: a user text, an
\* assistant text, an assistant message with a tool invocation before its
\* text, and the user message that carries the tool's result.
RawMessages ==
    {[role |-> "user", content |-> [kind |-> "str", text |-> <<1>>]],
     [role |-> "assistant",
      content |-> [kind |-> "list",
                   items |-> <<[type |-> "text", text |-> <<2>>]>>]],
     [role |-> "assistant",
      content |-> [kind |-> "list",
                   items |-> <<[type |-> "tool_use", name |-> "shell",
                                input |-> 1],
                               [type |-> "text", text |-> <<2>>]>>]],
     [role |-> "user",
      content |-> [kind |-> "list",
                   items |-> <<[type |-> "tool_result",
                                content |->
                                    [kind |-> "list",
                                     items |-> <<[type |-> "text",
                                                  text |-> <<3>>]>>]]>>]]}

\* the texts of the items that have a "text" key, in order
RECURSIVE Texts(_)
Texts(items) ==
    IF items = <<>> THEN <<>>
    ELSE (IF "text" \in DOMAIN Head(items) THEN <<Head(items).text>> ELSE <<>>)
             \o Texts(Tail(items))

\* "\n".join(texts); the line feed is white space
RECURSIVE Join(_)
Join(texts) ==
    IF texts = <<>> THEN <<>>
    ELSE IF Len(texts) = 1 THEN texts[1]
    ELSE texts[1] \o <<Blank>> \o Join(Tail(texts))

\* _extract_text_content
ExtractTextContent(content) ==
    IF content.kind = "str" THEN content.text ELSE Join(Texts(content.items))

\* _format_tool_use_messages: the tool_use entries of the content, in order
RECURSIVE ToolMessages(_)
ToolMessages(items) ==
    IF items = <<>> THEN <<>>
    ELSE (IF Head(items).type = "tool_use"
          THEN <<[role |-> "tool_use", tool |-> Head(items).name,
                  input |-> Head(items).input]>>
          ELSE <<>>)
             \o ToolMessages(Tail(items))

\* _format_tool_use_messages: the texts that are not blank, in order
RECURSIVE AssistantTexts(_)
AssistantTexts(items) ==
    IF items = <<>> THEN <<>>
    ELSE (IF /\ Head(items).type # "tool_use"
             /\ "text" \in DOMAIN Head(items)
             /\ Strip(Head(items).text) # <<>>
          THEN <<Head(items).text>>
          ELSE <<>>)
             \o AssistantTexts(Tail(items))

\* _format_tool_use_messages: the assistant text first, then the tool_use
\* entries
FormatToolUseMessages(content) ==
    IF content.kind # "list" THEN <<>>
    ELSE LET assistant_text == Join(AssistantTexts(content.items))
         IN (IF Strip(assistant_text) # <<>>
             THEN <<[role |-> "assistant", content |-> assistant_text]>>
             ELSE <<>>)
                \o ToolMessages(content.items)

\* Python's None, for an entry
NoEntry == [role |-> "none"]

\* _format_tool_result_message: the entry of the first tool_result item;
\* its output is the first text of the item's content list, or the item's
\* content string
RECURSIVE FirstToolResult(_)
FirstToolResult(items) ==
    IF items = <<>> THEN NoEntry
    ELSE IF Head(items).type = "tool_result"
    THEN LET content == Head(items).content
         IN [role |-> "tool_result", tool |-> "unknown",
             output |-> IF content.kind = "str" THEN content.text
                        ELSE IF Texts(content.items) = <<>> THEN <<>>
                        ELSE Texts(content.items)[1]]
    ELSE FirstToolResult(Tail(items))

\* _format_tool_result_message
FormatToolResultMessage(content) ==
    IF content.kind # "list" THEN NoEntry ELSE FirstToolResult(content.items)

\* history: the entries one message of agent.messages is formatted to
FormatMessage(msg) ==
    IF msg.role = "user"
    THEN IF FormatToolResultMessage(msg.content) # NoEntry
         THEN <<FormatToolResultMessage(msg.content)>>
         ELSE IF ExtractTextContent(msg.content) # <<>>
         THEN <<[role |-> "user", content |-> ExtractTextContent(msg.content)]>>
         ELSE <<>>
    ELSE IF msg.role = "assistant"
    THEN IF FormatToolUseMessages(msg.content) # <<>>
         THEN FormatToolUseMessages(msg.content)
         ELSE IF ExtractTextContent(msg.content) # <<>>
         THEN <<[role |-> "assistant",
                 content |-> ExtractTextContent(msg.content)]>>
         ELSE <<>>
    ELSE <<>>

\* history: the loop over agent.messages
RECURSIVE Formatted(_)
Formatted(msgs) ==
    IF msgs = <<>> THEN <<>>
    ELSE FormatMessage(Head(msgs)) \o Formatted(Tail(msgs))

\* the count arguments of GET /history and of get_messages
ReaderCounts == 0..(MaxTranscript - 1)

\* GET /history?count=..&include_tool_messages=..: history takes `count`
\* only, and a query parameter the handler does not declare is ignored
History(count, include_tool_messages) ==
    /\ ~sigterm
    /\ timer_pending' = TimerReset(timer_pending)
    /\ agent_inst' = GetAgent(agent_inst)
    /\ formatted' = LastCount(Formatted(agent_messages), count)
    /\ UNCHANGED <<chat_pc, chat_message, chat_response, health_response,
                   sigterm, agent_messages, message_files, flat_file>>

\* a message file whose text is not JSON
CorruptData == [corrupt |-> TRUE]

\* the worker's agent appends a message of the conversation and its session
\* manager writes the message file: message_<index>.json holds
\* {"message": ..., "message_id": index}
SessionAppend(msg) ==
    /\ Len(agent_messages) < MaxTranscript
    /\ flat_file = <<>>
    /\ agent_messages' = Append(agent_messages, msg)
    /\ message_files' =
           message_files \cup
               {[index |-> Len(agent_messages),
                 data |-> [message |-> msg,
                           message_id |-> Len(agent_messages)]]}
    /\ UNCHANGED <<flat_file, formatted>>

\* a session written in the other layout: the messages as one array under
\* one key of one file
FlatAppend(msg) ==
    /\ Len(agent_messages) < MaxTranscript
    /\ message_files = {}
    /\ agent_messages' = Append(agent_messages, msg)
    /\ flat_file' = Append(flat_file, msg)
    /\ UNCHANGED <<message_files, formatted>>

\* the text of a message file is damaged
FileCorrupted(index) ==
    /\ \E f \in message_files : f.index = index /\ f.data # CorruptData
    /\ message_files' =
           {IF f.index = index THEN [index |-> index, data |-> CorruptData]
            ELSE f : f \in message_files}
    /\ UNCHANGED <<agent_messages, flat_file, formatted>>

\* sorted(messages_dir.glob("message_*.json"), key=int(index))
RECURSIVE SortByIndex(_)
SortByIndex(files) ==
    IF files = {} THEN <<>>
    ELSE LET f == CHOOSE x \in files : \A y \in files : x.index <= y.index
         IN <<f>> \o SortByIndex(files \ {f})

\* the loop over the sorted message files:
\* actual_message = msg_data.get("message", msg_data)
RECURSIVE ActualMessages(_)
ActualMessages(sorted) ==
    IF sorted = <<>> THEN <<>>
    ELSE LET msg_data == Head(sorted).data
         IN <<IF "message" \in DOMAIN msg_data THEN msg_data.message
              ELSE msg_data>>
                \o ActualMessages(Tail(sorted))

\* get_messages, fallback: the messages of the message_*.json files; the
\* try around the loop turns the json.loads error of any file into the
\* final `"messages": []`, and no other file of the directory is read
ReadMessageFiles(files, count) ==
    IF \E f \in files : f.data = CorruptData THEN <<>>
    ELSE LastCount(ActualMessages(SortByIndex(files)), count)

\* get_messages for an agent whose container is not running: the messages
\* read from the session directory, returned as they are stored
GetMessagesFromDisk(count) ==
    /\ op_result' = Result("get_messages", 0, "success")
    /\ history' = HistoryDict(ReadMessageFiles(message_files, count))
    /\ UNCHANGED <<registry, port_counter, containers, next_container,
                   waiting, now, in_flight, sessions, prompt_file>>

\* A conversation that grows in the worker, read through GET /history and
\* through the fallback of get_messages.
NextReader ==
    \/ \E msg \in RawMessages :
           SessionAppend(msg)
               /\ UNCHANGED <<queueVars, workerVars, managerVars, storeVars,
                              monitor_task>>
    \/ \E count \in ReaderCounts, include_tool_messages \in BOOLEAN :
           History(count, include_tool_messages)
               /\ UNCHANGED <<queueVars, managerVars, storeVars, monitor_task>>
    \/ \E count \in ReaderCounts :
           GetMessagesFromDisk(count)
               /\ UNCHANGED <<queueVars, workerVars, readerVars, monitor_task>>

SpecReader == Init /\ [][NextReader]_vars

\* A session directory in either layout, with message files that can be
\* damaged, read through the fallback of get_messages.
NextStorage ==
    \/ \E msg \in RawMessages :
           SessionAppend(msg)
               /\ UNCHANGED <<queueVars, workerVars, managerVars, storeVars,
                              monitor_task>>
    \/ \E msg \in RawMessages :
           FlatAppend(msg)
               /\ UNCHANGED <<queueVars, workerVars, managerVars, storeVars,
                              monitor_task>>
    \/ \E index \in 0..(MaxTranscript - 1) :
           FileCorrupted(index)
               /\ UNCHANGED <<queueVars, workerVars, managerVars, storeVars,
                              monitor_task>>
    \/ \E count \in ReaderCounts :
           GetMessagesFromDisk(count)
               /\ UNCHANGED <<queueVars, workerVars, readerVars, monitor_task>>

SpecStorage == Init /\ [][NextStorage]_vars

(***************************************************************************)
(* Claims about the history reader, the listing, the loops and the timer.  *)
(***************************************************************************)

\* C39: a send_message that is rejected with a configuration error leaves
\* the registry as it was: no record is created and no field of an existing
\* record is modified, whatever data_dir the call carried.
C39_ConfigErrorLeavesRegistry ==
    [][\A a \in AgentIds, dir \in DataDirs, file \in PromptFiles :
          SendPromptFileError(a, dir, file) => registry' = registry]_vars

\* the _start_container calls of the agent that await the health check
StartsWaiting(a) == {t \in waiting : t.agent_id = a}

\* C38: the status starting is transient: a record has it only while the
\* health-check wait of a start of the agent is in progress; once
\* _start_container has returned or raised, the persisted status is not
\* starting.
C38_StartingOnlyWhileWaiting ==
    \A a \in AgentIds :
        registry[a].status = "starting" => StartsWaiting(a) # {}

\* process_request_queue is cancelled while it awaits the agent work:
\* CancelledError is no Exception, so the except branch is skipped, the
\* finally block runs and `except asyncio.CancelledError` leaves the loop
ProcessorCancelWorking ==
    /\ processor_pc = "work"
    /\ is_processing' = FALSE
    /\ processor_pc' = "cancelled"
    /\ queued_request' = NoRequest
    /\ UNCHANGED <<request_queue, processed_order, messages, req_message,
                   response_future, handler_pc, handler_result, raised>>

\* The request queue with a consumer loop that can be cancelled at any of
\* its awaits.
NextCancel ==
    \/ NextQueue
    \/ ProcessorCancelWorking
           /\ UNCHANGED <<workerVars, managerVars, storeVars, readerVars,
                          monitor_task>>

SpecCancel == Init /\ [][NextCancel]_vars

\* the entries the consumer loop has taken from the queue
Dequeued ==
    {r \in Requests :
        /\ handler_pc[r] # "idle"
        /\ \A i \in 1..Len(request_queue) : request_queue[i] # r}

\* C36: the result slot of every entry the consumer loop dequeued is
\* resolved before the loop takes the next entry or terminates, when the
\* turn raises as well as when the loop is cancelled during the turn; a
\* resolved slot is never assigned again.
C36_SlotAlwaysAssigned ==
    /\ [](\A r \in Dequeued :
              (processor_pc = "work" /\ queued_request = r)
                  \/ FutureDone(response_future[r]))
    /\ [][\A r \in Requests :
              FutureDone(response_future[r])
                  => response_future'[r] = response_future[r]]_vars

\* IdleShutdownTimer._shutdown: the pending timer expires, idle_timeout
\* seconds after the last reset, and sends SIGTERM to the worker's process
TimerFires ==
    /\ timer_pending > 0
    /\ ~sigterm
    /\ sigterm' = TRUE
    /\ timer_pending' = timer_pending - 1
    /\ UNCHANGED <<chat_pc, chat_message, chat_response, agent_inst,
                   health_response>>

\* The worker's handlers with the idle-shutdown timer.
NextTimer ==
    \/ NextWorker
    \/ \E count \in ReaderCounts, include_tool_messages \in BOOLEAN :
           History(count, include_tool_messages)
               /\ UNCHANGED <<queueVars, managerVars, storeVars, monitor_task>>
    \/ TimerFires
           /\ UNCHANGED <<queueVars, managerVars, storeVars, readerVars,
                          monitor_task>>

SpecTimer == Init /\ [][NextTimer]_vars

\* C40: the idle-shutdown timer never terminates the worker while a chat
\* turn is executing: at most one timer is pending, and the shutdown fires
\* only when no turn is in progress.
C40_NoShutdownDuringTurn ==
    /\ [](timer_pending <= 1)
    /\ [][(sigterm' /\ ~sigterm) => TurnsExecuting = {}]_vars

\* The operations the listing depends on: send_message without a data_dir
\* whose container-runtime calls succeed, the end of the health-check wait,
\* stop_agent, a container's exit and list_agents.
NextListing ==
    \/ \E a \in AgentIds :
           SendToRunning(a, NoDir)
               /\ UNCHANGED <<queueVars, workerVars, storeVars, readerVars,
                              monitor_task>>
    \/ \E a \in AgentIds :
           SendRestart(a, NoDir, "started")
               /\ UNCHANGED <<queueVars, workerVars, storeVars, readerVars,
                              monitor_task>>
    \/ \E a \in AgentIds :
           SendCreate(a, NoDir, "started")
               /\ UNCHANGED <<queueVars, workerVars, storeVars, readerVars,
                              monitor_task>>
    \/ \E t \in waiting, ready \in BOOLEAN :
           StartResume(t, ready)
               /\ UNCHANGED <<queueVars, workerVars, storeVars, readerVars,
                              monitor_task>>
    \/ \E a \in AgentIds, fails \in BOOLEAN :
           StopAgent(a, fails)
               /\ UNCHANGED <<queueVars, workerVars, storeVars, readerVars,
                              monitor_task>>
    \/ \E c \in ContainerIds :
           ContainerExit(c)
               /\ UNCHANGED <<queueVars, workerVars, storeVars, readerVars,
                              monitor_task>>
    \/ \E api_error \in BOOLEAN :
           ListAgents(api_error)
               /\ UNCHANGED <<queueVars, workerVars, readerVars, monitor_task>>

SpecListing == Init /\ [][NextListing]_vars

\* C35: the list list_agents returns has, for every agent with a container,
\* status running exactly when that container is running and stopped
\* otherwise, and the call writes nothing to the registry.
C35_ListReportsContainerState ==
    [][(op_result'.op = "list_agents" /\ op_result' # op_result)
          => /\ registry' = registry
             /\ op_result'.status = "success"
                 => \A a \in AgentIds :
                        IF ~Exists(registry[a])
                        THEN op_result'.agents[a] = "absent"
                        ELSE registry[a].container_id # 0
                             => /\ op_result'.agents[a] \in {"running", "stopped"}
                                /\ op_result'.agents[a] = "running"
                                       <=> containers[registry[a].container_id].state
                                               = "running"]_vars

\* list_agents has answered: one agent reads running after its dispatch,
\* another reads stopped while its record still says running, because its
\* container has exited on its own
C35_Witness ==
    /\ op_result.op = "list_agents"
    /\ op_result.status = "success"
    /\ \E a, b \in AgentIds :
           /\ op_result.agents[a] = "running"
           /\ registry[a].status = "running"
           /\ op_result.agents[b] = "stopped"
           /\ registry[b].status = "running"

\* start_idle_monitor: asyncio.create_task(monitor_loop()); server.py's
\* lifespan calls it once, on a new AgentManager
StartIdleMonitor ==
    /\ monitor_task.state = "none"
    /\ monitor_task' = [monitor_task EXCEPT !.state = "created"]
    /\ UNCHANGED managerVars

\* a monitor_loop whose try has no except: the exception ends the task
LoopEnded == "failed"

\* monitor_loop: `except Exception` logs the error of the sweep and the loop
\* goes on to asyncio.sleep(60)
AfterSweepRaised == "sleeping"

\* monitor_loop: one iteration, from the start of the task or the end of the
\* sleep up to the next `await asyncio.sleep(60)`.  `raises` is a sweep that
\* raises before it stops an agent
MonitorSweep(failing, raises) ==
    /\ monitor_task.state \in {"created", "sleeping"}
    /\ monitor_task.sweeps < MaxSweeps
    /\ IF raises
       THEN /\ monitor_task' =
                   [state |-> AfterSweepRaised,
                    sweeps |-> monitor_task.sweeps + 1,
                    raised |-> monitor_task.raised \cup {monitor_task.sweeps + 1}]
            /\ UNCHANGED managerVars
       ELSE /\ monitor_task' =
                   [monitor_task EXCEPT !.state = "sleeping", !.sweeps = @ + 1]
            /\ \/ CleanupIdleAgents(failing)
               \/ /\ failing = {}
                  /\ \A a \in AgentIds : ~IsIdle(registry[a])
                  /\ UNCHANGED managerVars

\* stop_idle_monitor: `if self._idle_monitor_task:` cancels the task, which
\* stands at its sleep or has not run yet; nothing is raised to the caller
StopIdleMonitor ==
    /\ monitor_task' =
           IF monitor_task.state \in {"created", "sleeping"}
           THEN [monitor_task EXCEPT !.state = "cancelled"]
           ELSE monitor_task
    /\ op_result' = Result("stop_idle_monitor", 0, "returned")
    /\ UNCHANGED <<registry, port_counter, containers, next_container,
                   waiting, now, in_flight>>

\* The idle monitor as server.py's lifespan runs it, over agents that are
\* created and grow idle.
NextMonitor ==
    \/ \E a \in AgentIds :
           SendCreate(a, NoDir, "started")
               /\ UNCHANGED <<queueVars, workerVars, storeVars, readerVars,
                              monitor_task>>
    \/ \E t \in waiting :
           StartResume(t, TRUE)
               /\ UNCHANGED <<queueVars, workerVars, storeVars, readerVars,
                              monitor_task>>
    \/ Tick /\ UNCHANGED <<queueVars, workerVars, storeVars, readerVars,
                           monitor_task>>
    \/ StartIdleMonitor
           /\ UNCHANGED <<queueVars, workerVars, storeVars, readerVars>>
    \/ \E failing \in SUBSET AgentIds, raises \in BOOLEAN :
           MonitorSweep(failing, raises)
               /\ UNCHANGED <<queueVars, workerVars, storeVars, readerVars>>
    \/ StopIdleMonitor
           /\ UNCHANGED <<queueVars, workerVars, storeVars, readerVars>>

SpecMonitor == Init /\ [][NextMonitor]_vars

\* the monitor_loop task exists and has not ended
MonitorAlive(task) == task.state \in {"created", "sleeping"}

\* C37: the idle monitor keeps sweeping until it is cancelled: a sweep that
\* raises leaves the loop at its sleep, only stop_idle_monitor ends the loop,
\* no sweep runs after it, and stop_idle_monitor returns without raising,
\* also when no monitor was started.
C37_MonitorRunsUntilCancelled ==
    [][/\ monitor_task'.raised # monitor_task.raised
           => monitor_task'.state = "sleeping"
       /\ (MonitorAlive(monitor_task) /\ ~MonitorAlive(monitor_task'))
           => /\ monitor_task'.state = "cancelled"
              /\ op_result' = Result("stop_idle_monitor", 0, "returned")
       /\ (op_result'.op = "stop_idle_monitor" /\ op_result' # op_result)
           => /\ op_result'.status = "returned"
              /\ ~MonitorAlive(monitor_task')
              /\ monitor_task.state = "none" => monitor_task' = monitor_task
       /\ ~MonitorAlive(monitor_task)
           => monitor_task'.sweeps = monitor_task.sweeps]_vars

\* the first sweep raised, the next sweep ran and stopped an idle agent, and
\* the monitor has been cancelled since
C37_Witness ==
    /\ monitor_task.state = "cancelled"
    /\ monitor_task.raised = {1}
    /\ monitor_task.sweeps = 2
    /\ \E a \in AgentIds : registry[a].status = "stopped"
    /\ op_result = Result("stop_idle_monitor", 0, "returned")

\* `result` is the final min(count, n) entries of the n entries of `all`, in
\* their order; count 0 asks for all of them
IsFinalEntries(result, all, count) ==
    LET k == IF count > 0 /\ count < Len(all) THEN count ELSE Len(all)
    IN /\ Len(result) = k
       /\ \A i \in 1..k : result[i] = all[Len(all) - k + i]

ToolTranscript ==
    <<[role |-> "user", content |-> [kind |-> "str", text |-> <<1>>]],
      [role |-> "assistant",
       content |-> [kind |-> "list",
                    items |-> <<[type |-> "tool_use", name |-> "shell",
                                 input |-> 1],
                                [type |-> "text", text |-> <<2>>]>>]],
      [role |-> "user",
       content |-> [kind |-> "list",
                    items |-> <<[type |-> "tool_result",
                                 content |->
                                     [kind |-> "list",
                                      items |-> <<[type |-> "text",
                                                   text |-> <<3>>]>>]]>>]]>>

\* C32: the history of the conversation of a user text, an assistant message
\* with a tool invocation and the tool's result has, in order, the user
\* entry, the assistant text, the tool_use entry with the tool's name and
\* input and the tool_result entry with the textual output; and a request
\* with include_tool_messages false gets the plain user and assistant
\* entries only.
C32_NormalizedHistory ==
    [][\A count \in ReaderCounts, include_tool_messages \in BOOLEAN :
          History(count, include_tool_messages)
              => /\ (agent_messages = ToolTranscript /\ count = 0
                        /\ include_tool_messages)
                     => formatted' =
                            <<[role |-> "user", content |-> <<1>>],
                              [role |-> "assistant", content |-> <<2>>],
                              [role |-> "tool_use", tool |-> "shell", input |-> 1],
                              [role |-> "tool_result", tool |-> "unknown",
                               output |-> <<3>>]>>
                 /\ ~include_tool_messages
                     => \A i \in 1..Len(formatted') :
                            formatted'[i].role \in {"user", "assistant"}]_vars

\* C33: the disk reader returns the same sequence for a conversation
\* whichever of the two layouts it is stored in: while every message file
\* can be parsed, get_messages returns the last count messages of the
\* conversation.
C33_BothLayoutsRead ==
    [][\A count \in ReaderCounts :
          (GetMessagesFromDisk(count)
               /\ \A f \in message_files : f.data # CorruptData)
              => history'.messages = LastCount(agent_messages, count)]_vars

\* the message files that can be parsed
ReadableFiles(files) == {f \in files : f.data # CorruptData}

\* C34: an error of reading the stored messages is not propagated by
\* get_messages, which still returns a success, and a message file that
\* cannot be parsed does not hide the others: the messages of the readable
\* files are returned.
C34_CorruptFileTolerated ==
    [][\A count \in ReaderCounts :
          GetMessagesFromDisk(count)
              => /\ op_result'.status = "success"
                 /\ history'.messages =
                        LastCount(ActualMessages(SortByIndex(
                                      ReadableFiles(message_files))), count)]_vars

====
